---- MODULE Spec2Model ----
(***************************************************************************)
(* The MVP Builder plugin: a session.idle handler that reloads a workflow  *)
(* record from mvp-builder.local.md, inspects the last assistant message   *)
(* for a <promise>...</promise> marker, commits and advances, and sends    *)
(* the next instruction.  Three variants of the plugin are kept in the     *)
(* repository: the phase-graph plugin (src/plugin/mvp-builder.ts), the     *)
(* legacy phase plugin (src/unnamed/part_004, lines 1-834) and the story   *)
(* queue plugin (src/unnamed/part_004, lines 836-1283).                    *)
(*                                                                         *)
(* Environment of the base specification: the host calls client.app.log   *)
(* and client.session.send and the state-file reads and writes succeed;   *)
(* the failures the code itself provides for are inputs of the handler:    *)
(* client.session.get throwing, gitCommit returning null, no prompt files. *)
(***************************************************************************)
EXTENDS Integers, Sequences, FiniteSets, TLC

\* Largest --max-iterations the start command is given.
MaxIter == 9

\* Largest number of prompt_NN.md files the agent generates.
MaxFiles == 2

VARIABLES
  variant,   \* which of the three plugins is installed
  file,      \* mvp-builder.local.md: Absent, or its header and body
  lastMsg,   \* the last assistant message of the session
  prd,       \* prd.json of the story queue plugin
  cycle      \* what the most recent operation did (its observable effects)

vars == <<variant, file, lastMsg, prd, cycle>>

----------------------------------------------------------------------------
\* Values

Variants == {"phase", "legacy", "story"}

Phases ==
  <<"generating_plan", "generating_prompts", "executing", "qa_integration",
    "qa_completeness", "documentation", "complete">>

\* JavaScript null as the value of lastCommit (never a hash, never the text "null").
\* The number NaN, which parseInt returns for a text that does not start with
\* digits: every comparison with it is false.
NaN == -1

JsNull == "<null>"

\* Short hashes `git rev-parse --short HEAD` may print.
Hashes == {"a1b2c3d", "e4f5a6b"}

\* No state file on disk.
Absent == [exists |-> FALSE]

\* parseState's null.
NullState == [isNull |-> TRUE]

\* client.session.send was not called.
NoSend == [sent |-> FALSE]

\* --reference-docs values the start command is given.
RefDocChoices == {<<>>, <<"docs/stripe.md">>}

\* --max-iterations values the start command is given.
MaxIterChoices == {1, 3, MaxIter}

----------------------------------------------------------------------------
\* The assistant's text, reduced to what the detector reads: the sequence of
\* well-formed <promise>inner</promise> occurrences, in order.  An inner text
\* is a core without surrounding white space plus the white space around it.

PhaseMarkers ==
  {"SEQUENCE_PLAN_COMPLETE", "PROMPTS_GENERATED", "PROMPT_COMPLETE",
   "INTEGRATION_CHECK_COMPLETE", "MVP_READY", "DOCUMENTATION_COMPLETE",
   "MVP_COMPLETE"}

StoryMarkers == {"COMPLETE", "STORY_COMPLETE", "PRD_CREATED"}

\* Cores that are no marker of any unit but differ from one in a character.
NearMisses == {"PROMPT_COMPLETED"}

Inner(core, pad) == [core |-> core, pad |-> pad]

\* No assistant message in the session (or no messages at all).
NoMsg == [has |-> FALSE, markers |-> <<>>]

Text(ms) == [has |-> TRUE, markers |-> ms]

\* String.prototype.trim on an inner text.
Trim(inner) == inner.core

\* The marker the instruction of a phase asks for.
MarkerOf(phase) ==
  CASE phase = "generating_plan" -> "SEQUENCE_PLAN_COMPLETE"
    [] phase = "generating_prompts" -> "PROMPTS_GENERATED"
    [] phase = "executing" -> "PROMPT_COMPLETE"
    [] phase = "qa_integration" -> "INTEGRATION_CHECK_COMPLETE"
    [] phase = "qa_completeness" -> "MVP_READY"
    [] phase = "documentation" -> "DOCUMENTATION_COMPLETE"
    [] phase = "complete" -> "MVP_COMPLETE"
    [] OTHER -> ""

\* core contains promise as a substring (among the texts of the model).
Contains(core, promise) ==
  \/ core = promise
  \/ core = "PROMPT_COMPLETED" /\ promise = "PROMPT_COMPLETE"

\* The first marker matched by substring instead of equality.
hasPromiseSubstring(text, promise) ==
  /\ Len(text.markers) > 0
  /\ Contains(Trim(text.markers[1]), promise)

\* Any marker of the text honoured, not the first only.
hasPromiseAnywhere(text, promise) ==
  \E i \in 1..Len(text.markers) : Trim(text.markers[i]) = promise

\* hasPromise: textContent.match(/<promise>([\s\S]*?)<\/promise>/) is the first
\* occurrence; its trimmed inner text is compared with ===.
hasPromise(text, promise) ==
  /\ Len(text.markers) > 0
  /\ Trim(text.markers[1]) = promise

----------------------------------------------------------------------------
\* Prompt files

\* prompt_NN.md, named by its digits.
FileName(n) == <<n \div 10, n % 10>>

PromptNames == {FileName(n) : n \in 1..MaxFiles}

\* parseInt of the digits of a file name.
RECURSIVE NumOf(_)
NumOf(digits) ==
  IF digits = <<>> THEN 0
  ELSE 10 * NumOf(SubSeq(digits, 1, Len(digits) - 1)) + digits[Len(digits)]

\* Array.prototype.sort with the comparator numA - numB (stable insertion).
RECURSIVE SortByNum(_)
SortByNum(fs) ==
  IF fs = <<>> THEN <<>>
  ELSE LET rest == SortByNum(Tail(fs))
           x == Head(fs)
           before == SelectSeq(rest, LAMBDA y : NumOf(y) < NumOf(x))
           after == SelectSeq(rest, LAMBDA y : NumOf(y) >= NumOf(x))
       IN before \o <<x>> \o after

\* A directory listing as readdirSync may return it: the files of S in
\* descending order of their names.
RECURSIVE Listing(_)
Listing(S) ==
  IF S = {} THEN <<>>
  ELSE LET x == CHOOSE y \in S : \A z \in S : NumOf(z) <= NumOf(y)
       IN <<x>> \o Listing(S \ {x})

Listings == {Listing(S) : S \in SUBSET PromptNames}

\* discoverPromptFiles: filter, numeric sort, every item pending.
discoverPromptFiles(listing) ==
  LET sorted == SortByNum(listing)
  IN [i \in 1..Len(sorted) |->
        [filename |-> sorted[i], title |-> "Prompt", status |-> "pending"]]

----------------------------------------------------------------------------
\* State store of the phase-graph plugin

StatusChar(status) ==
  IF status = "completed" THEN "x"
  ELSE IF status = "in_progress" THEN "/" ELSE " "

StatusOfChar(ch) ==
  IF ch = "x" THEN "completed"
  ELSE IF ch = "/" THEN "in_progress" ELSE "pending"

\* active written as false once the phase is complete.
writeStateClosesComplete(s) ==
  [exists |-> TRUE,
   active |-> s.active /\ s.phase # "complete",
   phase |-> s.phase,
   current_prompt_index |-> s.currentPromptIndex,
   total_prompts |-> s.totalPrompts,
   last_commit |->
     IF s.lastCommit = JsNull \/ s.lastCommit = ""
     THEN [quoted |-> FALSE, text |-> "null"]
     ELSE [quoted |-> TRUE, text |-> s.lastCommit],
   reference_docs |-> s.referenceDocs,
   max_iterations |-> s.maxIterations,
   current_iteration |-> s.currentIteration,
   body |-> [i \in 1..Len(s.promptSequence) |->
               [ch |-> StatusChar(s.promptSequence[i].status),
                filename |-> s.promptSequence[i].filename,
                title |-> s.promptSequence[i].title]]]

\* The header written with an empty reference_docs list.
writeStateDropsDocs(s) ==
  [exists |-> TRUE,
   active |-> s.active,
   phase |-> s.phase,
   current_prompt_index |-> s.currentPromptIndex,
   total_prompts |-> s.totalPrompts,
   last_commit |->
     IF s.lastCommit = JsNull \/ s.lastCommit = ""
     THEN [quoted |-> FALSE, text |-> "null"]
     ELSE [quoted |-> TRUE, text |-> s.lastCommit],
   reference_docs |-> <<>>,
   max_iterations |-> s.maxIterations,
   current_iteration |-> s.currentIteration,
   body |-> [i \in 1..Len(s.promptSequence) |->
               [ch |-> StatusChar(s.promptSequence[i].status),
                filename |-> s.promptSequence[i].filename,
                title |-> s.promptSequence[i].title]]]

\* writeState: the header and the prompt list of the body.  A falsy
\* lastCommit is written as the bare word null, any other in quotes.
writeState(s) ==
  [exists |-> TRUE,
   active |-> s.active,
   phase |-> s.phase,
   current_prompt_index |-> s.currentPromptIndex,
   total_prompts |-> s.totalPrompts,
   last_commit |->
     IF s.lastCommit = JsNull \/ s.lastCommit = ""
     THEN [quoted |-> FALSE, text |-> "null"]
     ELSE [quoted |-> TRUE, text |-> s.lastCommit],
   reference_docs |-> s.referenceDocs,
   max_iterations |-> s.maxIterations,
   current_iteration |-> s.currentIteration,
   body |-> [i \in 1..Len(s.promptSequence) |->
               [ch |-> StatusChar(s.promptSequence[i].status),
                filename |-> s.promptSequence[i].filename,
                title |-> s.promptSequence[i].title]]]

\* A body line the pattern /- \[([ x\/])\] (prompt_\d+\.md) - (.+)/ matches.
IsPromptLine(line) == line.ch \in {" ", "x", "/"}

\* The record built from the header alone, with no prompt sequence.
parseStateHeaderOnly(f) ==
  IF ~f.exists THEN NullState
  ELSE [isNull |-> FALSE,
        active |-> f.active,
        phase |-> f.phase,
        currentPromptIndex |-> f.current_prompt_index,
        totalPrompts |-> f.total_prompts,
        promptSequence |-> <<>>,
        lastCommit |-> f.last_commit.text,
        referenceDocs |-> f.reference_docs,
        maxIterations |-> f.max_iterations,
        currentIteration |-> f.current_iteration]

\* parseState: null without a file; the header by getValue (which strips a
\* pair of quotes), the prompt sequence from the body lines.
parseState(f) ==
  IF ~f.exists THEN NullState
  ELSE [isNull |-> FALSE,
        active |-> f.active,
        phase |-> f.phase,
        currentPromptIndex |-> f.current_prompt_index,
        totalPrompts |-> f.total_prompts,
        promptSequence |->
          LET lines == SelectSeq(f.body, IsPromptLine)
          IN [i \in 1..Len(lines) |->
                [filename |-> lines[i].filename,
                 title |-> lines[i].title,
                 status |-> StatusOfChar(lines[i].ch)]],
        lastCommit |-> f.last_commit.text,
        referenceDocs |-> f.reference_docs,
        maxIterations |-> f.max_iterations,
        currentIteration |-> f.current_iteration]

\* The state file the start command creates.
StartFile(docs, max) ==
  [exists |-> TRUE,
   active |-> TRUE,
   phase |-> "generating_plan",
   current_prompt_index |-> 0,
   total_prompts |-> 0,
   last_commit |-> [quoted |-> FALSE, text |-> "null"],
   reference_docs |-> docs,
   max_iterations |-> max,
   current_iteration |-> 1,
   body |-> <<>>]

----------------------------------------------------------------------------
\* The session.idle handler of the phase-graph plugin

\* commitMessage; the empty string is NoMessage.
Message(label, n, filename) == [label |-> label, n |-> n, filename |-> filename]

NoMessage == Message("", 0, <<>>)

\* state.promptSequence[i] is defined (i counts from 0).
Defined(s, i) == i >= 0 /\ i < Len(s.promptSequence)

SetStatus(s, i, status) ==
  [s EXCEPT !.promptSequence = [@ EXCEPT ![i + 1].status = status]]

\* What the detection block leaves behind: the (mutated) record, the three
\* locals, the levels logged, threw when an exception reached the catch, and
\* final when the complete case ran its cleanup and returned.
Detection(s, shouldAdvance, commitMessage, nextPhase, logs, threw, final) ==
  [state |-> s, shouldAdvance |-> shouldAdvance, commitMessage |-> commitMessage,
   nextPhase |-> nextPhase, logs |-> logs, threw |-> threw, final |-> final]

\* No case of the switch fired.
NoSignal(s) == Detection(s, FALSE, NoMessage, s.phase, <<>>, FALSE, FALSE)

\* The executing phase entered whatever was found.
CaseGeneratingPromptsAlways(s, listing) ==
  LET found == discoverPromptFiles(listing)
      s1 == [s EXCEPT !.promptSequence = found, !.totalPrompts = Len(found),
                      !.currentPromptIndex = 0]
  IN Detection(IF Len(found) > 0 THEN SetStatus(s1, 0, "in_progress") ELSE s1,
               TRUE, Message("MVP Builder: Generated execution prompts", Len(found), <<>>),
               "executing", <<>>, FALSE, FALSE)

\* case "generating_prompts"
CaseGeneratingPrompts(s, listing) ==
  LET found == discoverPromptFiles(listing)
      s1 == [s EXCEPT !.promptSequence = found, !.totalPrompts = Len(found)]
  IN IF Len(found) > 0
     THEN Detection(SetStatus([s1 EXCEPT !.currentPromptIndex = 0], 0, "in_progress"),
                    TRUE, Message("MVP Builder: Generated execution prompts", Len(found), <<>>),
                    "executing", <<>>, FALSE, FALSE)
     ELSE Detection(s1, FALSE, NoMessage, s.phase, <<"error">>, FALSE, FALSE)

\* case "executing"
\* The executing case moving on without marking the current item completed.
CaseExecutingLeavesOpen(s) ==
  LET i == s.currentPromptIndex
  IN IF i + 1 < s.totalPrompts
     THEN Detection(SetStatus([s EXCEPT !.currentPromptIndex = i + 1], i + 1, "in_progress"),
                    TRUE, Message("MVP Builder: Completed", 0, s.promptSequence[i + 1].filename),
                    "executing", <<>>, FALSE, FALSE)
     ELSE Detection(s, TRUE,
                    Message("MVP Builder: All execution prompts completed", 0, <<>>),
                    "qa_integration", <<>>, FALSE, FALSE)

\* The executing case with the bound test off by one: the cursor moves past
\* the last item before the phase changes.
CaseExecutingPastEnd(s) ==
  LET i == s.currentPromptIndex
      s1 == IF Defined(s, i) THEN SetStatus(s, i, "completed") ELSE s
      s2 == [s1 EXCEPT !.currentPromptIndex = i + 1]
  IN IF i + 1 <= s.totalPrompts
     THEN Detection(IF Defined(s2, i + 1) THEN SetStatus(s2, i + 1, "in_progress") ELSE s2,
                    TRUE, Message("MVP Builder: Completed", 0, <<>>),
                    "executing", <<>>, FALSE, FALSE)
     ELSE Detection(s1, TRUE,
                    Message("MVP Builder: All execution prompts completed", 0, <<>>),
                    "qa_integration", <<>>, FALSE, FALSE)

\* The executing case leaving the next item pending when the cursor moves.
CaseExecutingNoProgressMark(s) ==
  LET i == s.currentPromptIndex
      s1 == IF Defined(s, i) THEN SetStatus(s, i, "completed") ELSE s
  IN IF i + 1 < s.totalPrompts
     THEN Detection([s1 EXCEPT !.currentPromptIndex = i + 1], TRUE,
                    Message("MVP Builder: Completed", 0, s.promptSequence[i + 1].filename),
                    "executing", <<>>, FALSE, FALSE)
     ELSE Detection(s1, TRUE,
                    Message("MVP Builder: All execution prompts completed", 0, <<>>),
                    "qa_integration", <<>>, FALSE, FALSE)

CaseExecuting(s) ==
  LET i == s.currentPromptIndex
      here == Defined(s, i)
      s1 == IF here THEN SetStatus(s, i, "completed") ELSE s
      m1 == IF here
            THEN Message("MVP Builder: Completed", 0, s.promptSequence[i + 1].filename)
            ELSE NoMessage
  IN IF i + 1 < s.totalPrompts
     THEN LET s2 == [s1 EXCEPT !.currentPromptIndex = i + 1]
          IN IF Defined(s2, i + 1)
             THEN Detection(SetStatus(s2, i + 1, "in_progress"), TRUE, m1,
                            "executing", <<>>, FALSE, FALSE)
             ELSE \* TypeError on the undefined item, caught below the switch
                  Detection(s2, FALSE, m1, s.phase, <<"warn">>, TRUE, FALSE)
     ELSE Detection(s1, TRUE,
                    Message("MVP Builder: All execution prompts completed", 0, <<>>),
                    "qa_integration", <<>>, FALSE, FALSE)

\* The integration case naming the stage after the next one.
AdvanceSkipsReview(s, nextPhase, label) ==
  Detection(s, TRUE, Message(label, 0, <<>>),
            IF nextPhase = "qa_completeness" THEN "documentation" ELSE nextPhase,
            <<>>, FALSE, FALSE)

\* A case that only names the next phase and the commit message.
Advance(s, nextPhase, label) ==
  Detection(s, TRUE, Message(label, 0, <<>>), nextPhase, <<>>, FALSE, FALSE)

\* MVP_COMPLETE taken for no signal.
CaseCompleteIgnored(s) == NoSignal(s)

\* case "complete" with MVP_COMPLETE: the final commit, deleteState, a log
\* entry, return.
CaseComplete(s) ==
  Detection(s, FALSE, Message("MVP Builder: MVP COMPLETE", 0, <<>>), s.phase,
            <<"info">>, FALSE, TRUE)

\* switch (state.phase)
PhaseSwitch(s, text, listing) ==
  CASE s.phase = "generating_plan" /\ hasPromise(text, "SEQUENCE_PLAN_COMPLETE") ->
         Advance(s, "generating_prompts", "MVP Builder: Generated prompt sequence plan")
    [] s.phase = "generating_prompts" /\ hasPromise(text, "PROMPTS_GENERATED") ->
         CaseGeneratingPrompts(s, listing)
    [] s.phase = "executing" /\ hasPromise(text, "PROMPT_COMPLETE") ->
         CaseExecuting(s)
    [] s.phase = "qa_integration" /\ hasPromise(text, "INTEGRATION_CHECK_COMPLETE") ->
         Advance(s, "qa_completeness", "MVP Builder: Integration check complete")
    [] s.phase = "qa_completeness" /\ hasPromise(text, "MVP_READY") ->
         Advance(s, "documentation", "MVP Builder: MVP readiness verified")
    [] s.phase = "documentation" /\ hasPromise(text, "DOCUMENTATION_COMPLETE") ->
         Advance(s, "complete", "MVP Builder: Documentation complete")
    [] s.phase = "complete" /\ hasPromise(text, "MVP_COMPLETE") -> CaseComplete(s)
    [] OTHER -> NoSignal(s)

\* The try block: session.get, the last assistant message, the switch; the
\* catch logs a warning.
Detect(s, getOk, text, listing) ==
  IF ~getOk THEN Detection(s, FALSE, NoMessage, s.phase, <<"warn">>, TRUE, FALSE)
  ELSE IF ~text.has THEN NoSignal(s)
  ELSE PhaseSwitch(s, text, listing)

\* The limit check with > for >=.
ShouldHaltLate(s) == s.currentIteration > s.maxIterations

\* Safety: Check iteration limit
ShouldHalt(s) == s.maxIterations # NaN /\ s.currentIteration >= s.maxIterations

\* gitCommit called in every cycle.
CommitsEveryCycle(d) == TRUE

\* if (shouldAdvance && commitMessage)
CommitsNow(d) == d.shouldAdvance /\ d.commitMessage # NoMessage

\* state.phase = nextPhase placed inside `if (hash)`.
AfterCommitNeedsHash(d, git) ==
  IF CommitsNow(d) /\ git.ok
  THEN [d.state EXCEPT !.lastCommit = git.hash, !.phase = d.nextPhase]
  ELSE d.state

\* The commit block: lastCommit on a hash, then state.phase = nextPhase.
AfterCommit(d, git) ==
  IF CommitsNow(d)
  THEN [d.state EXCEPT !.lastCommit = IF git.ok THEN git.hash ELSE @,
                       !.phase = d.nextPhase]
  ELSE d.state

\* The increment left out.
IncrementForgotten(s) == s

\* The counter raised twice in one cycle.
IncrementTwice(s) == [s EXCEPT !.currentIteration = @ + 2]

\* state.currentIteration++
Increment(s) == [s EXCEPT !.currentIteration = @ + 1]

\* A status line that leaves the iteration counter out.
StatusMsgWithoutCounter(s) ==
  [iteration |-> 0, max |-> s.maxIterations, phase |-> s.phase,
   prompt |-> IF s.phase = "executing" THEN s.currentPromptIndex + 1 ELSE 0,
   total |-> IF s.phase = "executing" THEN s.totalPrompts ELSE 0]

\* statusMsg
StatusMsg(s) ==
  [iteration |-> s.currentIteration, max |-> s.maxIterations, phase |-> s.phase,
   prompt |-> IF s.phase = "executing" THEN s.currentPromptIndex + 1 ELSE 0,
   total |-> IF s.phase = "executing" THEN s.totalPrompts ELSE 0]

\* The prompt builders: which template, which item, which documents, and the
\* marker the text ends with.
BuildPrompt(s) ==
  LET p(builder, item, docs, marker) ==
        [builder |-> builder, item |-> item, docs |-> docs, marker |-> marker]
  IN CASE s.phase = "generating_plan" ->
            p("buildPhase1APrompt", <<>>, s.referenceDocs, "SEQUENCE_PLAN_COMPLETE")
       [] s.phase = "generating_prompts" ->
            p("buildPhase1BPrompt", <<>>, s.referenceDocs, "PROMPTS_GENERATED")
       [] s.phase = "executing" ->
            IF Defined(s, s.currentPromptIndex)
            THEN p("buildPhase2Prompt", s.promptSequence[s.currentPromptIndex + 1].filename,
                   s.referenceDocs, "PROMPT_COMPLETE")
            ELSE p("buildPhase2Prompt", <<>>, <<>>, "")
       [] s.phase = "qa_integration" ->
            p("buildPhase3APrompt", <<>>, s.referenceDocs, "INTEGRATION_CHECK_COMPLETE")
       [] s.phase = "qa_completeness" ->
            p("buildPhase3BPrompt", <<>>, s.referenceDocs, "MVP_READY")
       [] s.phase = "documentation" ->
            p("buildPhase4Prompt", <<>>, s.referenceDocs, "DOCUMENTATION_COMPLETE")
       [] s.phase = "complete" ->
            p("buildCompletePrompt", <<>>, <<>>, "MVP_COMPLETE")
       [] OTHER -> p("Unknown phase", <<>>, <<>>, "")

\* client.session.send({ text: `[${statusMsg}]\n\n${prompt}` })
Send(s) == [sent |-> TRUE, status |-> StatusMsg(s), prompt |-> BuildPrompt(s)]

\* What the most recent operation did: for a handler run, the record it
\* loaded, the text and the directory listing it read, how it ended, whether
\* the switch advanced, whether the catch block ran, the commit messages
\* given to gitCommit and whether it returned a hash, the levels logged,
\* whether the state file was written or deleted, and the text sent.
Blank(op) ==
  [op |-> op, loaded |-> NullState, text |-> NoMsg, listing |-> <<>>,
   outcome |-> "none", detected |-> FALSE, threw |-> FALSE, commits |-> <<>>,
   commitOk |-> FALSE, logs |-> <<>>, wrote |-> FALSE, deleted |-> FALSE,
   send |-> NoSend]

\* An operation other than the handler (a command, the agent).
Other(op) == Blank(op)

\* A handler run on the loaded record s.
Run(s, text, outcome) ==
  [Blank("idle") EXCEPT !.loaded = s, !.text = text, !.outcome = outcome]

\* The limit branch deactivating the record instead of deleting the file.
HaltDeactivates(s, text) ==
  [file |-> writeState([s EXCEPT !.active = FALSE]),
   cycle |-> [Run(s, text, "halted") EXCEPT !.logs = <<"warn">>, !.wrote = TRUE]]

\* The limit branch: deleteState, one log entry, return.
Halt(s, text) ==
  [file |-> Absent,
   cycle |-> [Run(s, text, "halted") EXCEPT !.logs = <<"warn">>, !.deleted = TRUE]]

\* The handler from the limit check on, for a loaded active record: the next
\* content of the state file and the report of the run.
Handle(s, getOk, text, listing, git) ==
  IF ShouldHalt(s) THEN Halt(s, text)
  ELSE LET d == Detect(s, getOk, text, listing)
       IN IF d.final
          THEN [file |-> Absent,
                cycle |-> [Run(s, text, "completed") EXCEPT
                             !.detected = TRUE, !.commits = <<d.commitMessage>>,
                             !.commitOk = git.ok, !.logs = d.logs, !.deleted = TRUE]]
          ELSE LET s3 == Increment(AfterCommit(d, git))
               IN [file |-> writeState(s3),
                   cycle |-> [Run(s, text, "continued") EXCEPT
                                !.listing = listing,
                                !.detected = d.shouldAdvance,
                                !.threw = d.threw,
                                !.commits = IF CommitsNow(d) THEN <<d.commitMessage>> ELSE <<>>,
                                !.commitOk = CommitsNow(d) /\ git.ok,
                                !.logs = d.logs
                                         \o (IF CommitsNow(d) /\ git.ok THEN <<"info">> ELSE <<>>)
                                         \o <<"info">>,
                                !.wrote = TRUE,
                                !.send = Send(s3)]]

\* The outcomes of gitCommit: null, or the short hash of the new HEAD, which
\* is not the hash of the previous commit.
GitOutcomes(previous) ==
  {[ok |-> FALSE, hash |-> JsNull]} \cup
  {[ok |-> TRUE, hash |-> h] : h \in Hashes \ {previous}}

----------------------------------------------------------------------------
\* The legacy phase plugin

\* The lexicographic order of two digit strings followed by ".md" ("." sorts
\* before every digit), as Array.prototype.sort() orders the file names.
RECURSIVE LexLess(_, _)
LexLess(a, b) ==
  IF a = <<>> THEN b # <<>>
  ELSE IF b = <<>> THEN FALSE
  ELSE IF Head(a) # Head(b) THEN Head(a) < Head(b)
  ELSE LexLess(Tail(a), Tail(b))

RECURSIVE SortLex(_)
SortLex(fs) ==
  IF fs = <<>> THEN <<>>
  ELSE LET rest == SortLex(Tail(fs))
           x == Head(fs)
           before == SelectSeq(rest, LAMBDA y : LexLess(y, x))
           after == SelectSeq(rest, LAMBDA y : ~LexLess(y, x))
       IN before \o <<x>> \o after

\* discoverPromptFiles of the legacy plugin: filter, sort(), title "Pending".
discoverPromptFilesLegacy(listing) ==
  LET sorted == SortLex(listing)
  IN [i \in 1..Len(sorted) |->
        [filename |-> sorted[i], title |-> "Pending", status |-> "pending"]]

\* checkCompletionPromise: the first occurrence, trimmed, compared with ===.
checkCompletionPromise(text, promise) ==
  /\ Len(text.markers) > 0
  /\ Trim(text.markers[1]) = promise

writeStateLegacy(s) ==
  [exists |-> TRUE,
   active |-> s.active,
   phase |-> s.phase,
   current_prompt_index |-> s.currentPromptIndex,
   total_prompts |-> s.totalPrompts,
   completion_promise |-> s.completionPromise,
   last_commit |->
     IF s.lastCommit = JsNull \/ s.lastCommit = ""
     THEN [quoted |-> FALSE, text |-> "null"]
     ELSE [quoted |-> TRUE, text |-> s.lastCommit],
   reference_docs |-> s.referenceDocs,
   max_iterations |-> s.maxIterations,
   current_iteration |-> s.currentIteration,
   body |-> [i \in 1..Len(s.promptSequence) |->
               [ch |-> StatusChar(s.promptSequence[i].status),
                filename |-> s.promptSequence[i].filename,
                title |-> s.promptSequence[i].title]]]

parseStateLegacy(f) ==
  IF ~f.exists THEN NullState
  ELSE [isNull |-> FALSE,
        active |-> f.active,
        phase |-> f.phase,
        currentPromptIndex |-> f.current_prompt_index,
        totalPrompts |-> f.total_prompts,
        promptSequence |->
          [i \in 1..Len(f.body) |->
             [filename |-> f.body[i].filename,
              title |-> f.body[i].title,
              status |-> StatusOfChar(f.body[i].ch)]],
        completionPromise |-> f.completion_promise,
        lastCommit |-> f.last_commit.text,
        referenceDocs |-> f.reference_docs,
        maxIterations |-> f.max_iterations,
        currentIteration |-> f.current_iteration]

\* The state file the legacy start command creates.
StartFileLegacy(docs, max) ==
  [exists |-> TRUE,
   active |-> TRUE,
   phase |-> "generating_plan",
   current_prompt_index |-> 0,
   total_prompts |-> 0,
   completion_promise |-> "MVP_COMPLETE",
   last_commit |-> [quoted |-> FALSE, text |-> "null"],
   reference_docs |-> docs,
   max_iterations |-> max,
   current_iteration |-> 1,
   body |-> <<>>]

\* A case that sets state.phase and the commit message.
AdvanceLegacy(s, phase, label) ==
  Detection([s EXCEPT !.phase = phase], TRUE, Message(label, 0, <<>>), phase,
            <<>>, FALSE, FALSE)

\* case "generating_prompts" of the legacy plugin: executing even with no file.
CaseGeneratingPromptsLegacy(s, listing) ==
  LET found == discoverPromptFilesLegacy(listing)
      s1 == [s EXCEPT !.promptSequence = found, !.totalPrompts = Len(found),
                      !.currentPromptIndex = 0]
      s2 == IF Len(found) > 0 THEN SetStatus(s1, 0, "in_progress") ELSE s1
  IN AdvanceLegacy(s2, "executing", "MVP Builder: Execution prompts generated")

\* case "executing" of the legacy plugin.
CaseExecutingLegacy(s) ==
  LET i == s.currentPromptIndex
      here == Defined(s, i)
      s1 == IF here THEN SetStatus(s, i, "completed") ELSE s
      m1 == Message("MVP Builder: Completed", 0,
                    IF here THEN s.promptSequence[i + 1].filename ELSE <<>>)
  IN IF i + 1 < s.totalPrompts
     THEN LET s2 == [s1 EXCEPT !.currentPromptIndex = i + 1]
          IN IF Defined(s2, i + 1)
             THEN Detection(SetStatus(s2, i + 1, "in_progress"), TRUE, m1,
                            s.phase, <<>>, FALSE, FALSE)
             ELSE Detection(s2, FALSE, m1, s.phase, <<"warn">>, TRUE, FALSE)
     ELSE Detection([s1 EXCEPT !.phase = "qa_integration"], TRUE, m1,
                    "qa_integration", <<>>, FALSE, FALSE)

\* switch (state.phase) of the legacy plugin
LegacySwitch(s, text, listing) ==
  CASE s.phase \in {"init", "generating_plan"}
         /\ checkCompletionPromise(text, "SEQUENCE_PLAN_COMPLETE") ->
         AdvanceLegacy(s, "generating_prompts", "MVP Builder: Prompt sequence plan generated")
    [] s.phase = "generating_prompts" /\ checkCompletionPromise(text, "PROMPTS_GENERATED") ->
         CaseGeneratingPromptsLegacy(s, listing)
    [] s.phase = "executing" /\ checkCompletionPromise(text, "PROMPT_COMPLETE") ->
         CaseExecutingLegacy(s)
    [] s.phase = "qa_integration"
         /\ checkCompletionPromise(text, "INTEGRATION_CHECK_COMPLETE") ->
         AdvanceLegacy(s, "qa_completeness", "MVP Builder: Integration check complete")
    [] s.phase = "qa_completeness" /\ checkCompletionPromise(text, "MVP_READY") ->
         AdvanceLegacy(s, "documentation", "MVP Builder: MVP readiness verified")
    [] s.phase = "documentation" /\ checkCompletionPromise(text, "DOCUMENTATION_COMPLETE") ->
         AdvanceLegacy(s, "complete", "MVP Builder: Documentation complete")
    [] s.phase = "complete" /\ checkCompletionPromise(text, s.completionPromise) ->
         Detection(s, FALSE, NoMessage, s.phase, <<"info">>, FALSE, TRUE)
    [] OTHER -> NoSignal(s)

DetectLegacy(s, getOk, text, listing) ==
  IF ~getOk THEN Detection(s, FALSE, NoMessage, s.phase, <<"warn">>, TRUE, FALSE)
  ELSE IF ~text.has THEN NoSignal(s)
  ELSE LegacySwitch(s, text, listing)

\* The commit inside the try block of the legacy plugin.
AfterCommitLegacy(d, git) ==
  IF CommitsNow(d) /\ git.ok
  THEN [d.state EXCEPT !.lastCommit = git.hash]
  ELSE d.state

\* getPhasePrompt
BuildPromptLegacy(s) ==
  LET p(builder, item, docs, marker) ==
        [builder |-> builder, item |-> item, docs |-> docs, marker |-> marker]
  IN CASE s.phase \in {"init", "generating_plan"} ->
            p("Phase 1A", <<>>, s.referenceDocs, "SEQUENCE_PLAN_COMPLETE")
       [] s.phase = "generating_prompts" ->
            p("Phase 1B", <<>>, s.referenceDocs, "PROMPTS_GENERATED")
       [] s.phase = "executing" ->
            IF Defined(s, s.currentPromptIndex)
            THEN p("Phase 2", s.promptSequence[s.currentPromptIndex + 1].filename,
                   s.referenceDocs, "PROMPT_COMPLETE")
            ELSE p("No more prompts to execute.", <<>>, <<>>, "")
       [] s.phase = "qa_integration" ->
            p("Phase 3A", <<>>, s.referenceDocs, "INTEGRATION_CHECK_COMPLETE")
       [] s.phase = "qa_completeness" ->
            p("Phase 3B", <<>>, s.referenceDocs, "MVP_READY")
       [] s.phase = "documentation" ->
            p("Phase 4", <<>>, s.referenceDocs, "DOCUMENTATION_COMPLETE")
       [] s.phase = "complete" ->
            p("Complete", <<>>, <<>>, s.completionPromise)
       [] OTHER -> p("Unknown phase.", <<>>, <<>>, "")

SendLegacy(s) == [sent |-> TRUE, status |-> StatusMsg(s), prompt |-> BuildPromptLegacy(s)]

\* The limit branch of the legacy plugin.
HaltLegacy(s, text) ==
  [file |-> Absent,
   cycle |-> [Run(s, text, "halted") EXCEPT !.logs = <<"info">>, !.deleted = TRUE]]

\* The legacy handler from the limit check on, for a loaded active record.
HandleLegacy(s, getOk, text, listing, git) ==
  IF s.currentIteration >= s.maxIterations THEN HaltLegacy(s, text)
  ELSE LET d == DetectLegacy(s, getOk, text, listing)
       IN IF d.final
          THEN [file |-> Absent,
                cycle |-> [Run(s, text, "completed") EXCEPT
                             !.detected = TRUE, !.logs = d.logs, !.deleted = TRUE]]
          ELSE LET s3 == Increment(AfterCommitLegacy(d, git))
               IN [file |-> writeStateLegacy(s3),
                   cycle |-> [Run(s, text, "continued") EXCEPT
                                !.listing = listing,
                                !.detected = d.shouldAdvance,
                                !.threw = d.threw,
                                !.commits = IF CommitsNow(d) THEN <<d.commitMessage>> ELSE <<>>,
                                !.commitOk = CommitsNow(d) /\ git.ok,
                                !.logs = d.logs \o <<"info">>,
                                !.wrote = TRUE,
                                !.send = SendLegacy(s3)]]

----------------------------------------------------------------------------
\* The story queue plugin

\* No prd.json, or one JSON.parse rejects: loadPRD's null.
NoPrd == [parsed |-> FALSE, userStories |-> <<>>]

Story(id, priority, passes) == [id |-> id, priority |-> priority, passes |-> passes]

Prd(stories) == [parsed |-> TRUE, userStories |-> stories]

\* Stable sort of the stories by ascending priority (a.priority - b.priority).
RECURSIVE SortByPriority(_)
SortByPriority(ss) ==
  IF ss = <<>> THEN <<>>
  ELSE LET rest == SortByPriority(Tail(ss))
           x == Head(ss)
           before == SelectSeq(rest, LAMBDA y : y.priority < x.priority)
           after == SelectSeq(rest, LAMBDA y : y.priority >= x.priority)
       IN before \o <<x>> \o after

\* The first pending story in declaration order, whatever its priority.
getNextStoryUnsorted(p) ==
  LET pending == SelectSeq(p.userStories, LAMBDA st : ~st.passes)
  IN IF pending = <<>> THEN <<>> ELSE <<pending[1]>>

\* getNextStory: the pending stories sorted by priority; <<>> stands for null.
getNextStory(p) ==
  LET pending == SortByPriority(SelectSeq(p.userStories, LAMBDA st : ~st.passes))
  IN IF pending = <<>> THEN <<>> ELSE <<pending[1]>>

allStoriesPassing(p) == \A i \in 1..Len(p.userStories) : p.userStories[i].passes

writeStateStory(s) ==
  [exists |-> TRUE,
   active |-> s.active,
   iteration |-> s.iteration,
   max_iterations |-> s.maxIterations,
   reference_docs |-> s.referenceDocs]

parseStateStory(f) ==
  IF ~f.exists THEN NullState
  ELSE [isNull |-> FALSE,
        active |-> f.active,
        iteration |-> f.iteration,
        maxIterations |-> f.max_iterations,
        referenceDocs |-> f.reference_docs]

\* The state file the story-queue start command creates.
StartFileStory(docs, max) ==
  [exists |-> TRUE,
   active |-> TRUE,
   iteration |-> 1,
   max_iterations |-> max,
   reference_docs |-> docs]

\* hasPromise of the story plugin: text.includes(`<promise>${p}</promise>`).
includesPromise(text, p) ==
  \E i \in 1..Len(text.markers) : text.markers[i] = Inner(p, FALSE)

\* buildPrompt: create the PRD, the completion text, or the next story.
BuildPromptStory(s, p) ==
  IF ~p.parsed
  THEN [builder |-> "Create PRD", story |-> "", docs |-> s.referenceDocs,
        markers |-> <<"PRD_CREATED">>]
  ELSE IF getNextStory(p) = <<>>
  THEN [builder |-> "COMPLETE", story |-> "", docs |-> <<>>, markers |-> <<"COMPLETE">>]
  ELSE [builder |-> "Iteration", story |-> getNextStory(p)[1].id, docs |-> s.referenceDocs,
        markers |-> <<"STORY_COMPLETE", "COMPLETE">>]

SendStory(s, p) ==
  [sent |-> TRUE, status |-> [iteration |-> s.iteration], prompt |-> BuildPromptStory(s, p)]

\* The limit branch of the story plugin.
HaltStory(s, text) ==
  [file |-> Absent,
   cycle |-> [Run(s, text, "halted") EXCEPT !.logs = <<"warn">>, !.deleted = TRUE]]

\* The story handler from the limit check on, for a loaded active record.
HandleStory(s, getOk, text, p, git) ==
  IF s.iteration >= s.maxIterations THEN HaltStory(s, text)
  ELSE IF getOk /\ includesPromise(text, "COMPLETE")
  THEN [file |-> Absent,
        cycle |-> [Run(s, text, "completed") EXCEPT
                     !.detected = TRUE,
                     !.commits = <<Message("MVP Builder: All stories complete!", 0, <<>>)>>,
                     !.commitOk = git.ok, !.logs = <<"info">>, !.deleted = TRUE]]
  ELSE LET created == getOk /\ includesPromise(text, "PRD_CREATED")
           done == getOk /\ includesPromise(text, "STORY_COMPLETE")
           msg == IF created THEN Message("MVP Builder: Created prd.json", 0, <<>>)
                  ELSE Message("MVP Builder: Story complete", s.iteration, <<>>)
           s3 == [s EXCEPT !.iteration = @ + 1]
       IN [file |-> writeStateStory(s3),
           cycle |-> [Run(s, text, "continued") EXCEPT
                        !.detected = created \/ done,
                        !.threw = ~getOk,
                        !.commits = IF created \/ done THEN <<msg>> ELSE <<>>,
                        !.commitOk = (created \/ done) /\ git.ok,
                        !.logs = (IF ~getOk THEN <<"warn">> ELSE <<>>)
                                 \o (IF (created \/ done) /\ git.ok THEN <<"info">> ELSE <<>>)
                                 \o <<"info">>,
                        !.wrote = TRUE,
                        !.send = SendStory(s3, p)]]

----------------------------------------------------------------------------
\* Actions

\* The state file the start command of the installed plugin creates.
StartFileOf(v, docs, max) ==
  CASE v = "phase" -> StartFile(docs, max)
    [] v = "legacy" -> StartFileLegacy(docs, max)
    [] v = "story" -> StartFileStory(docs, max)

\* /mvp-start: create the state file.
Start ==
  /\ ~file.exists
  /\ \E docs \in RefDocChoices, max \in MaxIterChoices :
       file' = StartFileOf(variant, docs, max)
  /\ cycle' = Other("start")
  /\ UNCHANGED <<variant, lastMsg, prd>>

\* /mvp-cancel: delete the state file.
Cancel ==
  /\ file.exists
  /\ file' = Absent
  /\ cycle' = Other("cancel")
  /\ UNCHANGED <<variant, lastMsg, prd>>

\* Texts with two markers, as pairs of cores.
Pairs(v) ==
  IF v = "story"
  THEN {<<"STORY_COMPLETE", "COMPLETE">>, <<"PRD_CREATED", "STORY_COMPLETE">>}
  ELSE {<<"PROMPT_COMPLETED", "PROMPT_COMPLETE">>,
        <<"PROMPTS_GENERATED", "PROMPT_COMPLETE">>,
        <<"SEQUENCE_PLAN_COMPLETE", "PROMPTS_GENERATED">>,
        <<"MVP_COMPLETE", "DOCUMENTATION_COMPLETE">>}

\* The texts the agent answers with: no marker; one marker, exact; one marker
\* with white space around it; a text that differs from a marker in a
\* character; two markers, the first a near miss or the marker of another unit.
Replies(v) ==
  {Text(<<>>)}
  \cup {Text(<<Inner(m, FALSE)>>) :
          m \in IF v = "story" THEN StoryMarkers ELSE PhaseMarkers \cup NearMisses}
  \cup {Text(<<Inner(m, TRUE)>>) :
          m \in IF v = "story" THEN {"COMPLETE"}
                ELSE {"SEQUENCE_PLAN_COMPLETE", "PROMPT_COMPLETE"}}
  \cup {Text(<<Inner(m[1], FALSE), Inner(m[2], FALSE)>>) : m \in Pairs(v)}

\* The agent answers; its message becomes the last assistant message.
AgentReply ==
  /\ \E t \in Replies(variant) : lastMsg' = t
  /\ cycle' = Other("reply")
  /\ UNCHANGED <<variant, file, prd>>

\* The contents prd.json may have: none, or two stories.
PrdStates ==
  {NoPrd} \cup
  {Prd(<<Story("US-001", pa, fa), Story("US-002", 1, fb)>>) :
     pa \in 1..2, fa \in BOOLEAN, fb \in BOOLEAN}

\* The agent (or the user) writes prd.json.
AgentWritesPrd ==
  /\ variant = "story"
  /\ \E p \in PrdStates \ {prd} : prd' = p
  /\ cycle' = Other("prd")
  /\ UNCHANGED <<variant, file, lastMsg>>

\* discoverPromptFiles is called (the directory is read) in this run.
Discovers(s, getOk, text) ==
  /\ ~ShouldHalt(s) /\ getOk /\ text.has
  /\ s.phase = "generating_prompts" /\ hasPromise(text, "PROMPTS_GENERATED")

DiscoversLegacy(s, getOk, text) ==
  /\ s.currentIteration < s.maxIterations /\ getOk /\ text.has
  /\ s.phase = "generating_prompts" /\ checkCompletionPromise(text, "PROMPTS_GENERATED")

\* gitCommit is called in this run.
CallsGit(s, d) ==
  /\ s.currentIteration < s.maxIterations
  /\ d.final \/ CommitsNow(d)

CallsGitStory(s, getOk, text) ==
  /\ s.iteration < s.maxIterations /\ getOk
  /\ \E m \in StoryMarkers : includesPromise(text, m)

\* gitCommit was not called.
NoGit == [ok |-> FALSE, hash |-> JsNull]

\* A handler run that returns at `if (!state || !state.active) return`.
Ignored(s) == Run(s, NoMsg, "ignored")

\* event({ type: "session.idle" }) of the phase-graph plugin.
IdlePhase ==
  /\ variant = "phase"
  /\ LET s == parseState(file)
     IN IF s = NullState \/ ~s.active
        THEN /\ cycle' = Ignored(s)
             /\ file' = file
        ELSE \E getOk \in BOOLEAN :
             \E listing \in IF Discovers(s, getOk, lastMsg) THEN Listings ELSE {<<>>} :
             \E git \in IF CallsGit(s, Detect(s, getOk, lastMsg, listing))
                        THEN GitOutcomes(s.lastCommit) ELSE {NoGit} :
               LET r == Handle(s, getOk, lastMsg, listing, git)
               IN /\ file' = r.file
                  /\ cycle' = r.cycle
  /\ UNCHANGED <<variant, lastMsg, prd>>

\* event({ type: "session.idle" }) of the legacy phase plugin.
IdleLegacy ==
  /\ variant = "legacy"
  /\ LET s == parseStateLegacy(file)
     IN IF s = NullState \/ ~s.active
        THEN /\ cycle' = Ignored(s)
             /\ file' = file
        ELSE \E getOk \in BOOLEAN :
             \E listing \in IF DiscoversLegacy(s, getOk, lastMsg) THEN Listings ELSE {<<>>} :
             \E git \in IF CallsGit(s, DetectLegacy(s, getOk, lastMsg, listing))
                        THEN GitOutcomes(s.lastCommit) ELSE {NoGit} :
               LET r == HandleLegacy(s, getOk, lastMsg, listing, git)
               IN /\ file' = r.file
                  /\ cycle' = r.cycle
  /\ UNCHANGED <<variant, lastMsg, prd>>

\* event({ type: "session.idle" }) of the story queue plugin.
IdleStory ==
  /\ variant = "story"
  /\ LET s == parseStateStory(file)
     IN IF s = NullState \/ ~s.active
        THEN /\ cycle' = Ignored(s)
             /\ file' = file
        ELSE \E getOk \in BOOLEAN :
             \E git \in IF CallsGitStory(s, getOk, lastMsg)
                        THEN GitOutcomes(JsNull) ELSE {NoGit} :
               LET r == HandleStory(s, getOk, lastMsg, prd, git)
               IN /\ file' = r.file
                  /\ cycle' = r.cycle
  /\ UNCHANGED <<variant, lastMsg, prd>>

Init ==
  /\ variant \in Variants
  /\ file = Absent
  /\ lastMsg = NoMsg
  /\ prd = NoPrd
  /\ cycle = Other("none")

Next ==
  \/ Start
  \/ Cancel
  \/ AgentReply
  \/ AgentWritesPrd
  \/ IdlePhase
  \/ IdleLegacy
  \/ IdleStory

Spec == Init /\ [][Next]_vars

----------------------------------------------------------------------------
\* Properties.  They are stated on the report of the most recent handler run
\* (cycle) and the state file that run left behind (file): cycle.loaded is
\* the record the run loaded, so a run relates the persisted record before it
\* (cycle.loaded) to the one after it (file).

\* The most recent operation was a trigger that loaded a record.
Loaded == cycle.op = "idle" /\ cycle.loaded # NullState

\* The iteration counter of a loaded record and of a state file.
CounterOf(s) == IF variant = "story" THEN s.iteration ELSE s.currentIteration

FileCounter(f) == IF variant = "story" THEN f.iteration ELSE f.current_iteration

\* The trigger loaded an active record whose counter has reached the limit.
AtLimit == Loaded /\ cycle.loaded.active /\ CounterOf(cycle.loaded) >= cycle.loaded.maxIterations

\* The trigger loaded an active record below the limit.
BelowLimit == Loaded /\ cycle.loaded.active /\ CounterOf(cycle.loaded) < cycle.loaded.maxIterations

\* C1: in every plugin variant a trigger that loads an active record below
\* the limit and does not end the workflow persists a counter exactly 1 greater
\* than the one it loaded, and no trigger lowers the persisted counter or
\* raises it by more than 1.
C1_IterationStep ==
  /\ BelowLimit /\ ~cycle.deleted =>
       /\ cycle.wrote /\ file.exists
       /\ FileCounter(file) = CounterOf(cycle.loaded) + 1
  /\ Loaded /\ file.exists =>
       FileCounter(file) - CounterOf(cycle.loaded) \in {0, 1}

C1_Witness ==
  /\ variant = "story" /\ BelowLimit /\ ~cycle.deleted
  /\ CounterOf(cycle.loaded) = 2 /\ file.exists /\ file.iteration = 3

\* C2 as stated: after every cycle a persisted active record has
\* currentIteration < maxIterations, and a cycle that leaves the persisted
\* counter at or above the limit dispatches no instruction.
C2_Original ==
  cycle.op = "idle" /\ file.exists =>
    /\ file.active => FileCounter(file) < file.max_iterations
    /\ FileCounter(file) >= file.max_iterations => ~cycle.send.sent

\* C2, amended: the limit is enforced by the trigger that loads a record at
\* the limit.  Every record a cycle persists has a counter no greater than
\* the limit; an instruction is dispatched only by a cycle that loaded a
\* counter below the limit; and the cycle that raises the counter to the
\* limit persists an active record and still dispatches its instruction.
C2_LimitAtNextTrigger ==
  /\ cycle.op = "idle" /\ file.exists => FileCounter(file) <= file.max_iterations
  /\ cycle.op = "idle" /\ cycle.send.sent => BelowLimit
  /\ BelowLimit /\ ~cycle.deleted
       /\ CounterOf(cycle.loaded) + 1 = cycle.loaded.maxIterations =>
       /\ file.exists /\ file.active
       /\ FileCounter(file) = file.max_iterations
       /\ cycle.send.sent

C2_Witness ==
  /\ variant = "phase" /\ cycle.op = "idle" /\ file.exists /\ file.active
  /\ file.current_iteration = file.max_iterations
  /\ file.max_iterations = MaxIter
  /\ cycle.send.sent

\* The marker the loaded record's unit asks for.
ExpectedMarker(s) ==
  CASE variant = "phase" -> MarkerOf(s.phase)
    [] variant = "legacy" ->
         IF s.phase = "complete" THEN s.completionPromise
         ELSE IF s.phase = "init" THEN "SEQUENCE_PLAN_COMPLETE"
         ELSE MarkerOf(s.phase)
    [] variant = "story" -> "COMPLETE"

\* The text the run read starts with the marker of the loaded unit.
FirstIsExpected ==
  /\ cycle.text.has /\ Len(cycle.text.markers) > 0
  /\ Trim(cycle.text.markers[1]) = ExpectedMarker(cycle.loaded)

\* C3: a trigger that loads a record with currentIteration >= maxIterations
\* deletes the state file, dispatches no instruction, makes no commit and
\* writes no record, whatever the last response carries; and a trigger that
\* finds no state file (as every trigger after the halt does) dispatches
\* nothing and does not create one.
C3_HardStop ==
  /\ AtLimit =>
       /\ ~file.exists /\ cycle.deleted /\ ~cycle.wrote
       /\ ~cycle.send.sent /\ cycle.commits = <<>>
  /\ cycle.op = "idle" /\ cycle.loaded = NullState =>
       /\ ~file.exists /\ ~cycle.wrote
       /\ ~cycle.send.sent /\ cycle.commits = <<>>

C3_Witness ==
  /\ variant = "phase" /\ AtLimit /\ cycle.loaded.phase = "executing"
  /\ cycle.text = Text(<<Inner("PROMPT_COMPLETE", FALSE)>>)
  /\ ~file.exists

\* The run detected no signal: the session could not be inspected, there was
\* no assistant message, no marker, or a first marker that is not the marker
\* of the loaded unit.
NoSignalSeen ==
  \/ cycle.threw
  \/ ~cycle.text.has
  \/ cycle.text.markers = <<>>
  \/ Trim(cycle.text.markers[1]) # MarkerOf(cycle.loaded.phase)

\* C4: the scenario with limit 3.  Cycle 1 is /mvp-start, which sets the
\* counter to 1 and has the agent begin the first unit with no prior signal;
\* cycle 2, the first trigger, sees that unit's marker, advances to the next
\* unit, makes one commit and leaves the counter at 2; cycle 3, the second
\* trigger, sees no signal for the next unit, self-loops and leaves the
\* counter at 3; the third trigger halts without rendering and the state file
\* is absent afterwards.
C4_Scenario ==
  variant = "phase" =>
    /\ cycle.op = "start" /\ file.max_iterations = 3 =>
         /\ file.active /\ file.phase = "generating_plan"
         /\ file.current_iteration = 1
         /\ cycle.commits = <<>>
    /\ /\ BelowLimit /\ cycle.loaded.maxIterations = 3
       /\ CounterOf(cycle.loaded) = 1
       /\ cycle.loaded.phase = "generating_plan"
       /\ FirstIsExpected /\ ~cycle.threw
       => /\ file.exists /\ file.phase = "generating_prompts"
          /\ Len(cycle.commits) = 1
          /\ file.current_iteration = 2
          /\ cycle.send.sent
          /\ cycle.send.prompt.builder = "buildPhase1BPrompt"
    /\ /\ BelowLimit /\ cycle.loaded.maxIterations = 3
       /\ CounterOf(cycle.loaded) = 2
       /\ cycle.loaded.phase = "generating_prompts"
       /\ NoSignalSeen
       => /\ file.exists /\ file.active /\ file.phase = "generating_prompts"
          /\ cycle.commits = <<>>
          /\ file.current_iteration = 3
          /\ cycle.send.sent
          /\ cycle.send.prompt.builder = "buildPhase1BPrompt"
    /\ AtLimit /\ cycle.loaded.maxIterations = 3 =>
         /\ CounterOf(cycle.loaded) = 3
         /\ ~file.exists /\ cycle.deleted
         /\ ~cycle.send.sent /\ cycle.commits = <<>>

\* The third cycle of the scenario has run: unit Y was entered with a commit
\* by the first trigger, the second trigger saw no signal.
C4_Witness ==
  /\ variant = "phase" /\ BelowLimit /\ cycle.loaded.maxIterations = 3
  /\ CounterOf(cycle.loaded) = 2
  /\ cycle.loaded.phase = "generating_prompts"
  /\ cycle.loaded.lastCommit \in Hashes
  /\ NoSignalSeen
  /\ file.exists /\ file.current_iteration = 3

\* The position of a phase in the fixed order.
IndexOf(phase) == CHOOSE i \in 1..Len(Phases) : Phases[i] = phase

\* C5: in the phase-graph plugin a cycle leaves the persisted phase where it
\* was or moves it to the immediately following stage of the fixed order, and
\* while the phase stays executing currentPromptIndex does not decrease.
C5_PhaseOrder ==
  variant = "phase" /\ Loaded /\ file.exists =>
    /\ IndexOf(file.phase) - IndexOf(cycle.loaded.phase) \in {0, 1}
    /\ cycle.loaded.phase = "executing" /\ file.phase = "executing" =>
         file.current_prompt_index >= cycle.loaded.currentPromptIndex

C5_Witness ==
  /\ variant = "phase" /\ Loaded /\ file.exists
  /\ cycle.loaded.phase = "documentation" /\ file.phase = "complete"
  /\ file.total_prompts = 2

\* The run moved the cursor: the persisted phase or item index differs from
\* the loaded one.
CursorMoved ==
  /\ file.exists
  /\ \/ file.phase # cycle.loaded.phase
     \/ file.current_prompt_index # cycle.loaded.currentPromptIndex

\* The run advanced the workflow: it moved the cursor, called gitCommit, or
\* ended the workflow as complete.
Advanced == CursorMoved \/ cycle.commits # <<>> \/ cycle.deleted

\* C6 as stated: the phase-graph plugin advances or commits only when the
\* detected marker text equals exactly the marker of the loaded unit.
C6_Original ==
  variant = "phase" /\ BelowLimit /\ Advanced =>
    /\ cycle.text.has /\ Len(cycle.text.markers) > 0
    /\ cycle.text.markers[1] = Inner(MarkerOf(cycle.loaded.phase), FALSE)

\* C6, amended: the phase-graph plugin advances or commits only when the
\* text of the first marker, with the white space around it trimmed, equals
\* the marker of the loaded unit; the marker of another phase, or a text that
\* differs from the expected marker in a character other than surrounding
\* white space, causes no advance and no commit.
C6_TrimmedMatch ==
  variant = "phase" /\ BelowLimit /\ Advanced =>
    /\ cycle.text.has /\ Len(cycle.text.markers) > 0
    /\ Trim(cycle.text.markers[1]) = MarkerOf(cycle.loaded.phase)

C6_Witness ==
  /\ variant = "phase" /\ BelowLimit /\ CursorMoved
  /\ cycle.loaded.phase = "executing"
  /\ cycle.text = Text(<<Inner("PROMPT_COMPLETE", TRUE)>>)

\* C7: in the phase plugins a response whose first marker is not the marker
\* of the loaded unit does not advance the cursor and causes no commit, also
\* when a later marker of the same response is that marker.
C7_FirstMarkerOnly ==
  /\ variant \in {"phase", "legacy"} /\ BelowLimit
  /\ cycle.text.has /\ Len(cycle.text.markers) > 0
  /\ Trim(cycle.text.markers[1]) # ExpectedMarker(cycle.loaded)
  => /\ file.exists /\ ~CursorMoved
     /\ cycle.commits = <<>>

C7_Witness ==
  /\ variant = "phase" /\ BelowLimit /\ file.exists
  /\ cycle.loaded.phase = "executing"
  /\ ~cycle.threw
  /\ cycle.text = Text(<<Inner("PROMPT_COMPLETED", FALSE), Inner("PROMPT_COMPLETE", FALSE)>>)

\* C8: a cycle of the phase-graph plugin that detects no signal persists a
\* record that reloads equal to the loaded one in every field except the
\* iteration counter, which is 1 greater.
C8_SelfLoopFrame ==
  variant = "phase" /\ BelowLimit /\ NoSignalSeen =>
    /\ file.exists
    /\ parseState(file) = [cycle.loaded EXCEPT !.currentIteration = @ + 1]

C8_Witness ==
  /\ variant = "phase" /\ BelowLimit /\ NoSignalSeen /\ ~cycle.threw
  /\ cycle.loaded.phase = "executing"
  /\ cycle.loaded.currentPromptIndex = 1
  /\ cycle.loaded.lastCommit \in Hashes
  /\ cycle.loaded.referenceDocs # <<>>
  /\ cycle.text = Text(<<Inner("PROMPTS_GENERATED", FALSE), Inner("PROMPT_COMPLETE", FALSE)>>)

\* The run read PROMPTS_GENERATED while generating_prompts was current and
\* discoverPromptFiles found no file.
ZeroItems ==
  /\ variant = "phase" /\ BelowLimit /\ ~cycle.threw
  /\ cycle.loaded.phase = "generating_prompts"
  /\ FirstIsExpected
  /\ cycle.listing = <<>>

\* C9: when PROMPTS_GENERATED is detected and no prompt file is found, an
\* error is logged, no commit is made, the phase stays generating_prompts and
\* the instruction dispatched is again the generate-execution-prompts one.
C9_ZeroItemsStay ==
  ZeroItems =>
    /\ \E i \in 1..Len(cycle.logs) : cycle.logs[i] = "error"
    /\ cycle.commits = <<>>
    /\ file.exists /\ file.phase = "generating_prompts"
    /\ cycle.send.sent
    /\ cycle.send.prompt.builder = "buildPhase1BPrompt"
    /\ cycle.send.prompt.marker = "PROMPTS_GENERATED"

C9_Witness ==
  /\ ZeroItems
  /\ cycle.text = Text(<<Inner("PROMPTS_GENERATED", FALSE)>>)
  /\ file.exists /\ file.current_iteration = 4

\* C10: in the phase-graph plugin, when gitCommit returns null in a cycle
\* that detected the marker of the loaded unit, the cursor still advances and
\* lastCommit keeps its value; lastCommit differs from the loaded one only
\* after a cycle whose commit returned a hash.
C10_CommitFailure ==
  variant = "phase" /\ BelowLimit /\ file.exists =>
    /\ FirstIsExpected /\ ~cycle.threw /\ cycle.commits # <<>> /\ ~cycle.commitOk =>
         /\ CursorMoved
         /\ parseState(file).lastCommit = cycle.loaded.lastCommit
    /\ parseState(file).lastCommit # cycle.loaded.lastCommit => cycle.commitOk

C10_Witness ==
  /\ variant = "phase" /\ BelowLimit /\ file.exists
  /\ FirstIsExpected /\ cycle.commits # <<>> /\ ~cycle.commitOk
  /\ cycle.loaded.phase = "qa_integration" /\ file.phase = "qa_completeness"
  /\ cycle.loaded.lastCommit \in Hashes

\* The run read the completion marker of the unit it loaded: in the
\* phase-graph plugin the first marker is the marker of the loaded phase, in
\* the story plugin the text contains one of the markers of the story loop.
MarkerDetected ==
  /\ ~cycle.threw
  /\ IF variant = "story"
     THEN cycle.text.has /\ \E m \in StoryMarkers : includesPromise(cycle.text, m)
     ELSE FirstIsExpected

\* The run advanced the workflow: the phase-graph cursor moved or the
\* workflow ended as complete; the story plugin keeps no cursor, its workflow
\* advances with every detected marker.
WorkflowAdvanced == variant = "story" \/ CursorMoved \/ cycle.deleted

SawMarkerIn(phase) ==
  /\ variant = "phase" /\ BelowLimit /\ ~cycle.threw
  /\ cycle.loaded.phase = phase
  /\ FirstIsExpected

\* C12 as stated: the cycle that detects DOCUMENTATION_COMPLETE makes the
\* final commit, clears the persisted state and dispatches nothing.
C12_Original ==
  SawMarkerIn("documentation") =>
    /\ Len(cycle.commits) = 1
    /\ ~file.exists /\ cycle.deleted
    /\ ~cycle.send.sent

\* C12, amended: the cycle that detects DOCUMENTATION_COMPLETE makes one
\* commit, persists an active record with phase complete and dispatches the
\* completion instruction; the final commit and the clearing of the state
\* are made by the cycle that detects MVP_COMPLETE while the phase is
\* complete, which dispatches nothing, and nothing is dispatched while the
\* state file is absent.
C12_CompleteEdge ==
  /\ SawMarkerIn("documentation") =>
       /\ Len(cycle.commits) = 1
       /\ file.exists /\ file.active /\ file.phase = "complete"
       /\ cycle.send.sent
       /\ cycle.send.prompt.builder = "buildCompletePrompt"
       /\ cycle.send.prompt.marker = "MVP_COMPLETE"
  /\ SawMarkerIn("complete") =>
       /\ Len(cycle.commits) = 1
       /\ ~file.exists /\ cycle.deleted /\ ~cycle.wrote
       /\ ~cycle.send.sent
  /\ variant = "phase" /\ cycle.op = "idle" /\ ~file.exists => ~cycle.send.sent

C12_Witness ==
  /\ SawMarkerIn("complete")
  /\ cycle.commitOk /\ cycle.deleted /\ ~file.exists
  /\ cycle.loaded.totalPrompts = 2

\* The run loaded a record of the phase-graph plugin whose cursor had
\* reached complete, and saved.
SavedAtComplete ==
  /\ variant = "phase" /\ BelowLimit
  /\ cycle.loaded.phase = "complete"
  /\ cycle.wrote

\* C13 as stated: once the cursor has reached complete every save writes
\* active=false, and after the terminal clear the state file is absent.
C13_Original ==
  /\ SavedAtComplete => file.exists /\ ~file.active
  /\ variant = "phase" /\ cycle.deleted => parseState(file) = NullState

\* C13, amended: once the cursor has reached complete every save still
\* writes active=true with phase complete (no save of the handler writes
\* active=false); the workflow is closed by the terminal clear, after which
\* the state file is absent and parseState returns null.
C13_Closure ==
  /\ SavedAtComplete => file.exists /\ file.active /\ file.phase = "complete"
  /\ variant = "phase" /\ cycle.op = "idle" /\ cycle.wrote => file.exists /\ file.active
  /\ variant = "phase" /\ cycle.deleted => ~file.exists /\ parseState(file) = NullState

C13_Witness ==
  /\ SavedAtComplete /\ file.exists /\ file.active
  /\ cycle.send.sent /\ cycle.send.prompt.builder = "buildCompletePrompt"
  /\ cycle.text = Text(<<Inner("DOCUMENTATION_COMPLETE", FALSE)>>)

----------------------------------------------------------------------------
\* Story selection as a function of prd.json

\* The longest userStories list and the largest priority value.
MaxStories == 3

MaxPriority == 2

\* The ids of the stories, by position in userStories.
StoryIds == <<"A", "B", "C", "D", "E">>

\* Every userStories list of n stories.
StoryLists(n) ==
  {[i \in 1..n |-> Story(StoryIds[i], pr[i], pa[i])] :
     pr \in [1..n -> 1..MaxPriority], pa \in [1..n -> BOOLEAN]}

\* The parsed prd.json files getNextStory is applied to.
PrdInputs == UNION {{Prd(l) : l \in StoryLists(n)} : n \in 0..MaxStories}

InitSelect ==
  /\ variant = "story"
  /\ file = Absent
  /\ lastMsg = NoMsg
  /\ prd \in PrdInputs
  /\ cycle = [op |-> "loadPRD", next |-> <<>>, all |-> FALSE]

\* getNextStory(prd) and allStoriesPassing(prd).
SelectNext ==
  /\ cycle.op = "loadPRD"
  /\ cycle' = [op |-> "getNextStory", next |-> getNextStory(prd),
               all |-> allStoriesPassing(prd)]
  /\ UNCHANGED <<variant, file, lastMsg, prd>>

NextSelect == SelectNext

SpecSelect == InitSelect /\ [][NextSelect]_vars

\* Story i of prd.json is pending and no pending story comes before it in
\* the order of selection: a smaller priority value first, and of two equal
\* ones the one declared first.
IsFirstPending(i) ==
  /\ ~prd.userStories[i].passes
  /\ \A j \in 1..Len(prd.userStories) :
       ~prd.userStories[j].passes =>
         \/ prd.userStories[j].priority > prd.userStories[i].priority
         \/ prd.userStories[j].priority = prd.userStories[i].priority /\ j >= i

\* C14: getNextStory returns, of the stories with passes=false, the one with
\* the smallest priority value and among equal ones the one declared first;
\* it returns none exactly when every story passes; for A(2, pending),
\* B(1, pending), C(1, passing) it returns B.
C14_StorySelection ==
  cycle.op = "getNextStory" =>
    /\ cycle.next = <<>> <=> \A i \in 1..Len(prd.userStories) : prd.userStories[i].passes
    /\ cycle.next = <<>> <=> cycle.all
    /\ cycle.next # <<>> =>
         \E i \in 1..Len(prd.userStories) :
           IsFirstPending(i) /\ cycle.next = <<prd.userStories[i]>>
    /\ prd.userStories = <<Story("A", 2, FALSE), Story("B", 1, FALSE), Story("C", 1, TRUE)>>
         => cycle.next = <<Story("B", 1, FALSE)>>

C14_Witness ==
  /\ cycle.op = "getNextStory"
  /\ prd.userStories = <<Story("A", 2, FALSE), Story("B", 1, FALSE), Story("C", 1, TRUE)>>
  /\ cycle.next = <<Story("B", 1, FALSE)>>

----------------------------------------------------------------------------
\* Properties of the handlers (continued)

\* C15: the story plugin ends the workflow as complete (final commit, state
\* file deleted, nothing sent) only when prd.json exists and has no story
\* with passes=false.
C15_CompleteOnlyWhenAllPass ==
  /\ variant = "story" /\ BelowLimit
  /\ cycle.deleted /\ cycle.commits # <<>>
  => /\ prd.parsed
     /\ \A i \in 1..Len(prd.userStories) : prd.userStories[i].passes

----------------------------------------------------------------------------
\* Loading state files that /mvp-start did not write

\* The value parseInt falls back to for a missing max_iterations.
DefaultMaxIterations == 100

\* A header field as text: <<>> when the key is missing, else <<text>>.  A
\* numeric text is its leading digits (<<>> when it has none) and what
\* follows them.
NumText(lead, tail) == [lead |-> lead, tail |-> tail]

ActiveTexts == {<<>>, <<"true">>, <<"false">>}

PhaseTexts == {<<>>, <<"generating_plan">>, <<"reviewing">>}

MaxTexts == {<<>>, <<NumText(<<3>>, "")>>, <<NumText(<<3>>, ".7")>>, <<NumText(<<>>, "abc")>>}

IterationTexts == {<<>>, <<NumText(<<1>>, "")>>, <<NumText(<<2>>, ".5")>>}

\* State files as text: with or without the --- fences, each of the fields
\* the handler reads missing, well-formed or malformed; no prompt list.
RawFiles ==
  [exists : {TRUE}, raw : {TRUE}, fenced : BOOLEAN, active : ActiveTexts,
   phase : PhaseTexts, max_iterations : MaxTexts, current_iteration : IterationTexts]

\* parseInt(text, 10)
parseInt(t) == IF t.lead = <<>> THEN NaN ELSE t.lead[1]

\* getValue(key) || fallback
OrElse(field, fallback) == IF field = <<>> THEN fallback ELSE field[1]

\* parseState on no file at all, on a file without a frontmatter block, and
\* on one in which any field is not what /mvp-start writes.
parseStateStrict(f) ==
  IF /\ f.fenced
     /\ f.active # <<>> /\ f.phase = <<"generating_plan">>
     /\ f.max_iterations # <<>> /\ f.current_iteration # <<>>
     /\ f.max_iterations[1].lead # <<>> /\ f.max_iterations[1].tail = ""
     /\ f.current_iteration[1].tail = ""
  THEN [isNull |-> FALSE, active |-> f.active = <<"true">>, phase |-> f.phase[1],
        currentPromptIndex |-> 0, totalPrompts |-> 0, promptSequence |-> <<>>,
        lastCommit |-> "null", referenceDocs |-> <<>>,
        maxIterations |-> parseInt(f.max_iterations[1]),
        currentIteration |-> parseInt(f.current_iteration[1])]
  ELSE NullState

\* parseState on a file given as text: null without the frontmatter block,
\* otherwise every field read with its fallback.
parseStateText(f) ==
  IF ~f.fenced THEN NullState
  ELSE [isNull |-> FALSE,
        active |-> f.active = <<"true">>,
        phase |-> OrElse(f.phase, "generating_plan"),
        currentPromptIndex |-> 0,
        totalPrompts |-> 0,
        promptSequence |-> <<>>,
        lastCommit |-> "null",
        referenceDocs |-> <<>>,
        maxIterations |-> parseInt(OrElse(f.max_iterations, NumText(<<DefaultMaxIterations>>, ""))),
        currentIteration |-> parseInt(OrElse(f.current_iteration, NumText(<<1>>, "")))]

\* parseState on any state file of this section.
parseStateAny(f) ==
  IF f.exists /\ "raw" \in DOMAIN f THEN parseStateText(f) ELSE parseState(f)

InitParse ==
  /\ variant = "phase"
  /\ file \in RawFiles \cup {Absent}
  /\ lastMsg \in {NoMsg, Text(<<Inner("SEQUENCE_PLAN_COMPLETE", FALSE)>>)}
  /\ prd = NoPrd
  /\ cycle = [from |-> Absent] @@ Other("none")

\* event({ type: "session.idle" }) of the phase-graph plugin; the report
\* also keeps the file the run loaded.
IdleParse ==
  /\ LET s == parseStateAny(file)
     IN IF s = NullState \/ ~s.active
        THEN /\ cycle' = [from |-> file] @@ Ignored(s)
             /\ file' = file
        ELSE /\ s.currentIteration < MaxIter
             /\ \E getOk \in BOOLEAN :
                \E listing \in IF Discovers(s, getOk, lastMsg) THEN Listings ELSE {<<>>} :
                \E git \in IF CallsGit(s, Detect(s, getOk, lastMsg, listing))
                           THEN GitOutcomes(s.lastCommit) ELSE {NoGit} :
                  LET r == Handle(s, getOk, lastMsg, listing, git)
                  IN /\ file' = r.file
                     /\ cycle' = [from |-> file] @@ r.cycle
  /\ UNCHANGED <<variant, lastMsg, prd>>

NextParse == IdleParse

SpecParse == InitParse /\ [][NextParse]_vars

\* The file the run loaded is missing or is not what /mvp-start and
\* writeState produce: no frontmatter block, or a field that is missing, is
\* not an integer or is not a known phase.
Malformed(f) ==
  \/ ~f.exists
  \/ /\ "raw" \in DOMAIN f
     /\ \/ ~f.fenced
        \/ f.active = <<>> \/ f.phase # <<"generating_plan">>
        \/ f.max_iterations = <<>> \/ f.current_iteration = <<>>
        \/ f.max_iterations # <<>> /\ f.max_iterations[1] # NumText(<<3>>, "")
        \/ f.current_iteration # <<>> /\ f.current_iteration[1] # NumText(<<1>>, "")

\* C16 as stated: a missing or malformed state file loads as null and the
\* handler does nothing.
C16_Original ==
  cycle.op = "idle" /\ Malformed(cycle.from) =>
    /\ cycle.loaded = NullState
    /\ ~cycle.wrote /\ ~cycle.deleted /\ ~cycle.send.sent

\* The run loaded a state file given as text, with its frontmatter block.
LoadedText == cycle.op = "idle" /\ cycle.from.exists /\ "raw" \in DOMAIN cycle.from /\ cycle.from.fenced

\* C16, amended: parseState returns null only for a missing file and for a
\* file without a well-formed frontmatter block, and then the handler does
\* nothing.  A frontmatter with a missing field loads with that field
\* defaulted (active false, phase generating_plan, max_iterations 100,
\* current_iteration 1); an unknown phase is loaded as written and a numeric
\* field is read by parseInt, 3.7 as 3 and a text without digits as NaN.  When
\* the loaded record is active the cycle runs on it: on an unknown phase it
\* sends the unknown-phase text, and with max_iterations NaN it never halts.
C16_LenientLoad ==
  /\ cycle.op = "idle" =>
       (cycle.loaded = NullState <=>
          ~cycle.from.exists \/ ("raw" \in DOMAIN cycle.from /\ ~cycle.from.fenced))
  /\ cycle.op = "idle" /\ (cycle.loaded = NullState \/ ~cycle.loaded.active) =>
       ~cycle.wrote /\ ~cycle.deleted /\ ~cycle.send.sent /\ file = cycle.from
  /\ LoadedText =>
       /\ cycle.loaded.active = (cycle.from.active = <<"true">>)
       /\ cycle.from.phase = <<>> => cycle.loaded.phase = "generating_plan"
       /\ cycle.from.phase # <<>> => cycle.loaded.phase = cycle.from.phase[1]
       /\ cycle.from.max_iterations = <<>> => cycle.loaded.maxIterations = DefaultMaxIterations
       /\ cycle.from.max_iterations \in {<<NumText(<<3>>, "")>>, <<NumText(<<3>>, ".7")>>} =>
            cycle.loaded.maxIterations = 3
       /\ cycle.from.max_iterations = <<NumText(<<>>, "abc")>> => cycle.loaded.maxIterations = NaN
       /\ cycle.from.current_iteration = <<>> => cycle.loaded.currentIteration = 1
       /\ cycle.from.current_iteration = <<NumText(<<2>>, ".5")>> => cycle.loaded.currentIteration = 2
  /\ cycle.op = "idle" /\ cycle.loaded # NullState /\ cycle.loaded.active =>
       /\ cycle.wrote \/ cycle.deleted
       /\ cycle.loaded.maxIterations = NaN => cycle.outcome = "continued" /\ cycle.send.sent
       /\ cycle.loaded.phase = "reviewing" /\ cycle.send.sent =>
            /\ cycle.send.prompt.builder = "Unknown phase"
            /\ file.phase = "reviewing"

C16_Witness ==
  /\ LoadedText /\ Malformed(cycle.from)
  /\ cycle.from.phase = <<"reviewing">>
  /\ cycle.from.max_iterations = <<NumText(<<>>, "abc")>>
  /\ cycle.from.current_iteration = <<>>
  /\ cycle.send.sent /\ cycle.wrote
  /\ file.current_iteration = 2 /\ file.max_iterations = NaN

----------------------------------------------------------------------------
\* A crash while writeState is writing

\* A state file cut before the closing --- of the frontmatter (an empty
\* file included): parseState finds no frontmatter block.
TornHeader ==
  [exists |-> TRUE, raw |-> TRUE, fenced |-> FALSE, active |-> <<>>, phase |-> <<>>,
   max_iterations |-> <<>>, current_iteration |-> <<>>]

\* What writeFileSync can leave of the content f when the process dies
\* during the call: all of it, nothing up to a part of the header, or the
\* header with the first k lines of the prompt list.
Torn(f) ==
  {f, TornHeader} \cup {[f EXCEPT !.body = SubSeq(f.body, 1, k)] : k \in 0..(Len(f.body) - 1)}

InitCrash ==
  /\ variant = "phase"
  /\ file = Absent
  /\ lastMsg = NoMsg
  /\ prd = NoPrd
  /\ cycle = Other("none")

\* The handler of the phase-graph plugin, the process dying inside the
\* writeFileSync of writeState: nothing is sent, and the file is what the
\* call had written by then.  The report keeps the content being written.
IdleCrash ==
  /\ LET s == parseStateAny(file)
     IN /\ s # NullState /\ s.active /\ ~ShouldHalt(s)
        /\ \E getOk \in BOOLEAN :
           \E listing \in IF Discovers(s, getOk, lastMsg) THEN Listings ELSE {<<>>} :
           \E git \in IF CallsGit(s, Detect(s, getOk, lastMsg, listing))
                      THEN GitOutcomes(s.lastCommit) ELSE {NoGit} :
             LET r == Handle(s, getOk, lastMsg, listing, git)
             IN /\ r.cycle.wrote
                /\ \E left \in Torn(r.file) : file' = left
                /\ cycle' = [from |-> file, intended |-> r.file]
                              @@ [r.cycle EXCEPT !.outcome = "crashed", !.send = NoSend]
  /\ UNCHANGED <<variant, lastMsg, prd>>

NextCrash ==
  \/ Start
  \/ AgentReply
  \/ IdleParse
  \/ IdleCrash

SpecCrash == InitCrash /\ [][NextCrash]_vars

\* C17: after a crash during writeState the record the next trigger loads
\* is the record loaded before the write or the record being written; it is
\* never a record with a truncated item list and never null.
C17_AtomicSave ==
  cycle.op = "idle" /\ cycle.outcome = "crashed" =>
    parseStateAny(file) \in {cycle.loaded, parseState(cycle.intended)}

----------------------------------------------------------------------------
\* parseState as a function of the header and of the body

\* The character in the brackets of a body line: a status character, or one
\* the pattern of parseState does not match.
BodyChars == {" ", "x", "/", "-"}

\* The bodies: one line for each of the first n prompt files.
Bodies ==
  UNION {{[i \in 1..n |-> [ch |-> c[i], filename |-> FileName(i), title |-> "Prompt"]] :
            c \in [1..n -> BodyChars]} : n \in 0..MaxFiles}

\* A header as writeState writes it in the executing phase.
HeaderOf(index) ==
  writeState([isNull |-> FALSE, active |-> TRUE, phase |-> "executing",
              currentPromptIndex |-> index, totalPrompts |-> MaxFiles,
              promptSequence |-> <<>>, lastCommit |-> JsNull, referenceDocs |-> <<>>,
              maxIterations |-> MaxIter, currentIteration |-> 1])

InitBody ==
  /\ variant = "phase"
  /\ \E index \in 0..(MaxFiles - 1), b \in Bodies :
       file = [HeaderOf(index) EXCEPT !.body = b]
  /\ lastMsg = NoMsg
  /\ prd = NoPrd
  /\ \E b \in Bodies : cycle = [op |-> "none", body |-> b]

\* parseState on the state file and on the file with the same header and
\* the other body.
LoadBoth ==
  /\ cycle.op = "none"
  /\ cycle' = [op |-> "parseState", body |-> cycle.body,
               first |-> parseState(file),
               second |-> parseState([file EXCEPT !.body = cycle.body])]
  /\ UNCHANGED <<variant, file, lastMsg, prd>>

NextBody == LoadBoth

SpecBody == InitBody /\ [][NextBody]_vars

\* C18 as stated: two state files with identical headers and different
\* bodies load to the same record.
C18_Original ==
  cycle.op = "parseState" => cycle.first = cycle.second

\* C18, amended: of two state files with identical headers, every field but
\* promptSequence loads the same; promptSequence is read from the body, and
\* the two records are equal exactly when the two bodies hold the same
\* prompt lines (the lines the pattern matches), in the same order.
C18_BodyCarriesSequence ==
  cycle.op = "parseState" =>
    /\ [cycle.first EXCEPT !.promptSequence = <<>>] = [cycle.second EXCEPT !.promptSequence = <<>>]
    /\ cycle.first = cycle.second <=>
         SelectSeq(file.body, IsPromptLine) = SelectSeq(cycle.body, IsPromptLine)
    /\ Len(cycle.first.promptSequence) = Len(SelectSeq(file.body, IsPromptLine))

C18_Witness ==
  /\ cycle.op = "parseState"
  /\ Len(file.body) = 2 /\ Len(cycle.body) = 2
  /\ file.body[1].ch = "x" /\ cycle.body[1].ch = "/"
  /\ cycle.first.promptSequence[1].status = "completed"
  /\ cycle.second.promptSequence[1].status = "in_progress"

----------------------------------------------------------------------------
\* The handler suspended at `await client.session.get`

\* The largest number of handler runs suspended at one time.
MaxInFlight == 2

\* What the runs of this section keep besides the report of the last run:
\* the records held in memory by the runs suspended at session.get, whether
\* /mvp-cancel has deleted the state file, and the number of runs that loaded
\* an active record below the limit.
Tracked(inflight, cancelled, begun) ==
  [inflight |-> inflight, cancelled |-> cancelled, begun |-> begun]

InitAwait ==
  /\ variant = "phase"
  /\ file = Absent
  /\ lastMsg = NoMsg
  /\ prd = NoPrd
  /\ cycle = Tracked(<<>>, FALSE, 0) @@ Other("none")

\* /mvp-start, once.
StartAwait ==
  /\ cycle.op = "none"
  /\ \E max \in {2, 3} : file' = StartFile(<<>>, max)
  /\ cycle' = Tracked(<<>>, FALSE, 0) @@ Other("start")
  /\ UNCHANGED <<variant, lastMsg, prd>>

\* The agent answers with no marker or with the marker of a phase.
ReplyAwait ==
  /\ file.exists
  /\ \E t \in {Text(<<>>)} \cup {Text(<<Inner(m, FALSE)>>) : m \in PhaseMarkers} :
       /\ t # lastMsg
       /\ lastMsg' = t
  /\ cycle' = Tracked(cycle.inflight, cycle.cancelled, cycle.begun) @@ Other("reply")
  /\ UNCHANGED <<variant, file, prd>>

\* /mvp-cancel deletes the state file.
CancelAwait ==
  /\ file.exists
  /\ file' = Absent
  /\ cycle' = Tracked(cycle.inflight, TRUE, cycle.begun) @@ Other("cancel")
  /\ UNCHANGED <<variant, lastMsg, prd>>

\* A session.idle event: the handler from its entry to the await of
\* session.get.  It returns on no record or an inactive one, halts at the
\* limit, and otherwise is suspended holding the record it loaded.
IdleBegin ==
  /\ Len(cycle.inflight) < MaxInFlight
  /\ cycle.begun < MaxIter
  /\ LET s == parseState(file)
     IN IF s = NullState \/ ~s.active
        THEN /\ file' = file
             /\ cycle' = Tracked(cycle.inflight, cycle.cancelled, cycle.begun) @@ Ignored(s)
        ELSE IF ShouldHalt(s)
        THEN /\ file' = Halt(s, lastMsg).file
             /\ cycle' = Tracked(cycle.inflight, cycle.cancelled, cycle.begun)
                           @@ Halt(s, lastMsg).cycle
        ELSE /\ file' = file
             /\ cycle' = Tracked(Append(cycle.inflight, s), cycle.cancelled, cycle.begun + 1)
                           @@ Run(s, NoMsg, "suspended")
  /\ UNCHANGED <<variant, lastMsg, prd>>

\* session.get returns to a suspended run: the rest of the handler, on the
\* record the run holds in memory.
IdleResume ==
  /\ \E k \in 1..Len(cycle.inflight) :
       LET s == cycle.inflight[k]
           others == [i \in 1..(Len(cycle.inflight) - 1) |->
                        IF i < k THEN cycle.inflight[i] ELSE cycle.inflight[i + 1]]
       IN \E getOk \in BOOLEAN :
          \E listing \in IF Discovers(s, getOk, lastMsg) THEN Listings ELSE {<<>>} :
          \E git \in IF CallsGit(s, Detect(s, getOk, lastMsg, listing))
                     THEN GitOutcomes(s.lastCommit) ELSE {NoGit} :
            LET r == Handle(s, getOk, lastMsg, listing, git)
            IN /\ file' = r.file
               /\ cycle' = Tracked(others, cycle.cancelled, cycle.begun) @@ r.cycle
  /\ UNCHANGED <<variant, lastMsg, prd>>

NextAwait ==
  \/ StartAwait
  \/ ReplyAwait
  \/ CancelAwait
  \/ IdleBegin
  \/ IdleResume

SpecAwait == InitAwait /\ [][NextAwait]_vars

\* C19: once /mvp-cancel has deleted the state file, no step of any cycle
\* recreates it and none dispatches an instruction.
C19_CancelIsFinal ==
  cycle.cancelled => ~file.exists /\ ~cycle.send.sent

\* C20: no two runs of the handler are at one time between their parseState
\* and their writeState or deleteState, and when no run is suspended the
\* persisted counter has been raised once for each trigger.
C20_NoOverlap ==
  /\ Len(cycle.inflight) <= 1
  /\ cycle.inflight = <<>> /\ ~cycle.cancelled /\ file.exists =>
       file.current_iteration = 1 + cycle.begun

----------------------------------------------------------------------------
\* External calls that throw

\* The external service that fails during a run of the handler: none, the
\* log (client.app.log), unlinkSync of deleteState, writeFileSync of
\* writeState, or client.session.send.  session.get and git are inputs of
\* Handle already.
Broken == {"none", "log", "delete", "write", "send"}

\* A run that ended with an exception leaving the handler: the state file it
\* left, and the report of what it had done by then.
Escaped(f, report) ==
  [file |-> f, cycle |-> [escaped |-> TRUE] @@ [report EXCEPT !.outcome = "escaped", !.send = NoSend]]

Returned(r) == [file |-> r.file, cycle |-> [escaped |-> FALSE] @@ r.cycle]

\* The handler on the state file f holding the record s, with one external
\* service failing.  Only the block from session.get to the end of the
\* switch is inside try; its catch logs.  deleteState, writeState, the log
\* calls of the limit branch, of the commit block and of the status line, and
\* session.send are called outside it.
HandleFailing(f, s, getOk, text, listing, git, broken) ==
  LET r == Handle(s, getOk, text, listing, git)
      d == Detect(s, getOk, text, listing)
      \* the run as far as the commit block, nothing written yet
      upToCommit == [r.cycle EXCEPT !.wrote = FALSE, !.deleted = FALSE]
  IN CASE broken = "none" -> Returned(r)
       [] broken = "delete" ->
            IF ShouldHalt(s) THEN Escaped(f, [upToCommit EXCEPT !.logs = <<>>])
            ELSE IF d.final
            THEN \* unlinkSync throws inside try: caught, logged, the cycle goes on
                 LET s3 == Increment(s)
                 IN [file |-> writeState(s3),
                     cycle |-> [escaped |-> FALSE]
                                 @@ [Run(s, text, "continued") EXCEPT
                                       !.threw = TRUE,
                                       !.commits = <<d.commitMessage>>,
                                       !.commitOk = git.ok,
                                       !.logs = <<"warn", "info">>,
                                       !.wrote = TRUE,
                                       !.send = Send(s3)]]
            ELSE Returned(r)
       [] broken = "log" ->
            IF ShouldHalt(s) THEN Escaped(Absent, [r.cycle EXCEPT !.logs = <<>>])
            ELSE IF d.final THEN Escaped(Absent, [r.cycle EXCEPT !.logs = <<>>])
            ELSE IF d.logs # <<>> \/ (CommitsNow(d) /\ git.ok)
            THEN Escaped(f, [upToCommit EXCEPT !.logs = <<>>])
            ELSE Escaped(r.file, [r.cycle EXCEPT !.logs = <<>>])
       [] broken = "write" ->
            IF ShouldHalt(s) \/ d.final THEN Returned(r)
            ELSE Escaped(f, [upToCommit EXCEPT !.logs = SubSeq(@, 1, Len(@) - 1)])
       [] broken = "send" ->
            IF ShouldHalt(s) \/ d.final THEN Returned(r)
            ELSE Escaped(r.file, r.cycle)

InitFail ==
  /\ variant = "phase"
  /\ file = Absent
  /\ lastMsg = NoMsg
  /\ prd = NoPrd
  /\ cycle = Other("none")

\* event({ type: "session.idle" }) of the phase-graph plugin with one
\* external service failing.
IdleFail ==
  /\ LET s == parseState(file)
     IN IF s = NullState \/ ~s.active
        THEN /\ cycle' = [escaped |-> FALSE] @@ Ignored(s)
             /\ file' = file
        ELSE \E getOk \in BOOLEAN, broken \in Broken :
             \E listing \in IF Discovers(s, getOk, lastMsg) THEN Listings ELSE {<<>>} :
             \E git \in IF CallsGit(s, Detect(s, getOk, lastMsg, listing))
                        THEN GitOutcomes(s.lastCommit) ELSE {NoGit} :
               LET r == HandleFailing(file, s, getOk, lastMsg, listing, git, broken)
               IN /\ file' = r.file
                  /\ cycle' = r.cycle
  /\ UNCHANGED <<variant, lastMsg, prd>>

\* The agent answers with no marker or with exactly the marker of a phase.
ExactReplies == {Text(<<>>)} \cup {Text(<<Inner(m, FALSE)>>) : m \in PhaseMarkers}

AgentReplyExact ==
  /\ file.exists
  /\ \E t \in ExactReplies \ {lastMsg} : lastMsg' = t
  /\ cycle' = Other("reply")
  /\ UNCHANGED <<variant, file, prd>>

\* /mvp-start with a small iteration limit, so that the limit branch is close.
StartFail ==
  /\ ~file.exists
  /\ \E docs \in RefDocChoices, max \in {1, 3} :
       file' = StartFileOf(variant, docs, max)
  /\ cycle' = Other("start")
  /\ UNCHANGED <<variant, lastMsg, prd>>

NextFail ==
  \/ StartFail
  \/ AgentReplyExact
  \/ IdleFail

SpecFail == InitFail /\ [][NextFail]_vars

\* C21: no failure of an external call leaves the session.idle handler as
\* an exception.
C21_NoEscape ==
  cycle.op = "idle" => ~cycle.escaped

----------------------------------------------------------------------------
\* Rendering the prompt twice.  The builders read the record, the files under
\* the project directory and the git log; buildCompletePrompt also reads the
\* clock.  Time is counted in half minutes since started_at.

MaxElapsed == 3

\* What the builders read besides the record: the content of the reference
\* documents and the output of git log.
Contexts == [docs : {"v1", "v2"}, commits : {<<>>} \cup {<<h>> : h \in Hashes}]

\* buildCompletePrompt(state), called when Date.now() - startedAt is elapsed.
buildCompletePromptAt(s, elapsed) ==
  [builder |-> "buildCompletePrompt",
   totalPrompts |-> s.totalPrompts,
   iterations |-> s.currentIteration,
   hours |-> (elapsed \div 2) \div 60,
   minutes |-> (elapsed \div 2) % 60,
   lastCommit |-> IF s.lastCommit = JsNull \/ s.lastCommit = "" THEN "N/A" ELSE s.lastCommit,
   marker |-> "MVP_COMPLETE"]

\* The prompt switch of the handler, with what each builder interpolates.
Render(s, ctx, elapsed) ==
  IF s.phase = "complete" THEN buildCompletePromptAt(s, elapsed)
  ELSE LET p == BuildPrompt(s)
       IN [template |-> p,
           docs |-> IF p.docs = <<>> THEN "" ELSE ctx.docs,
           commits |-> IF p.builder \in {"buildPhase1APrompt", "buildPhase2Prompt",
                                         "buildPhase3APrompt"} /\ p.marker # ""
                       THEN ctx.commits ELSE <<>>]

\* The records rendered: every phase, with and without reference documents
\* and a last commit.
RenderFiles ==
  {[StartFile(docs, MaxIter) EXCEPT !.phase = ph, !.last_commit = [quoted |-> q, text |-> c]] :
     docs \in RefDocChoices, ph \in {Phases[i] : i \in 1..Len(Phases)},
     q \in {FALSE}, c \in {"null"} \cup Hashes}

NoRender == [inputs |-> <<>>, text |-> <<>>]

InitRender ==
  /\ variant = "phase"
  /\ file \in RenderFiles
  /\ lastMsg = NoMsg
  /\ prd = NoPrd
  /\ cycle = [op |-> "none", elapsed |-> 0, inputs |-> <<>>, text |-> <<>>,
              prev |-> NoRender]

\* One evaluation of the prompt switch; the clock does not run backwards.
RenderPrompt ==
  /\ \E ctx \in Contexts, elapsed \in cycle.elapsed..MaxElapsed :
       LET s == parseState(file)
       IN cycle' = [op |-> "render", elapsed |-> elapsed,
                    inputs |-> <<s, ctx>>,
                    text |-> Render(s, ctx, elapsed),
                    prev |-> [inputs |-> cycle.inputs, text |-> cycle.text]]
  /\ UNCHANGED <<variant, file, lastMsg, prd>>

NextRender == RenderPrompt

SpecRender == InitRender /\ [][NextRender]_vars

\* C22: two renders with identical record, documents and git history give
\* the same text, in every phase.
C22_IdempotentRendering ==
  (cycle.op = "render" /\ cycle.prev.inputs = cycle.inputs)
    => cycle.prev.text = cycle.text

\* The same, outside the complete phase.
RenderStableBeforeComplete ==
  (cycle.op = "render" /\ cycle.prev.inputs = cycle.inputs
     /\ parseState(file).phase # "complete")
    => cycle.prev.text = cycle.text

----------------------------------------------------------------------------
\* Consecutive cycles with prd.json and the reference documents left alone.
\* The report of a run also keeps the text the run before it sent.

\* Limits given to the start command here: room for two and three cycles.
StableLimits == {3, 4}

InitStable ==
  /\ variant \in {"phase", "story"}
  /\ file = Absent
  /\ lastMsg = NoMsg
  /\ prd \in IF variant = "story" THEN PrdStates ELSE {NoPrd}
  /\ cycle = Other("none") @@ [prev |-> NoSend]

StartStable ==
  /\ ~file.exists
  /\ \E docs \in RefDocChoices, max \in StableLimits :
       file' = StartFileOf(variant, docs, max)
  /\ cycle' = Other("start") @@ [prev |-> NoSend]
  /\ UNCHANGED <<variant, lastMsg, prd>>

\* The agent answers; nothing of the plugin runs.
ReplyStable ==
  /\ file.exists
  /\ \E t \in Replies(variant) \ {lastMsg} : lastMsg' = t
  /\ UNCHANGED <<variant, file, prd, cycle>>

IdleStablePhase ==
  /\ variant = "phase"
  /\ LET s == parseState(file)
     IN IF s = NullState \/ ~s.active
        THEN /\ cycle' = Ignored(s) @@ [prev |-> cycle.send]
             /\ file' = file
        ELSE \E getOk \in BOOLEAN :
             \E listing \in IF Discovers(s, getOk, lastMsg) THEN Listings ELSE {<<>>} :
             \E git \in IF CallsGit(s, Detect(s, getOk, lastMsg, listing))
                        THEN GitOutcomes(s.lastCommit) ELSE {NoGit} :
               LET r == Handle(s, getOk, lastMsg, listing, git)
               IN /\ file' = r.file
                  /\ cycle' = r.cycle @@ [prev |-> cycle.send]
  /\ UNCHANGED <<variant, lastMsg, prd>>

IdleStableStory ==
  /\ variant = "story"
  /\ LET s == parseStateStory(file)
     IN IF s = NullState \/ ~s.active
        THEN /\ cycle' = Ignored(s) @@ [prev |-> cycle.send]
             /\ file' = file
        ELSE \E getOk \in BOOLEAN :
             \E git \in IF CallsGitStory(s, getOk, lastMsg)
                        THEN GitOutcomes(JsNull) ELSE {NoGit} :
               LET r == HandleStory(s, getOk, lastMsg, prd, git)
               IN /\ file' = r.file
                  /\ cycle' = r.cycle @@ [prev |-> cycle.send]
  /\ UNCHANGED <<variant, lastMsg, prd>>

NextStable ==
  \/ StartStable
  \/ ReplyStable
  \/ IdleStablePhase
  \/ IdleStableStory

SpecStable == InitStable /\ [][NextStable]_vars

\* A cycle that detected no signal and sent a text, after a cycle that sent
\* a text.
QuietCycle ==
  /\ cycle.op = "idle" /\ cycle.outcome = "continued"
  /\ ~MarkerDetected /\ ~cycle.detected
  /\ cycle.send.sent /\ cycle.prev.sent

----------------------------------------------------------------------------
\* The markers requested at the end of the instruction a run sent.
Requested ==
  IF variant = "story"
  THEN {cycle.send.prompt.markers[i] : i \in 1..Len(cycle.send.prompt.markers)}
  ELSE IF cycle.send.prompt.marker = "" THEN {} ELSE {cycle.send.prompt.marker}

\* The record the run persisted.
Persisted ==
  CASE variant = "phase" -> parseState(file)
    [] variant = "legacy" -> parseStateLegacy(file)
    [] variant = "story" -> parseStateStory(file)

\* The markers the detector honours on the next trigger: the one marker of
\* the persisted phase, or any of the three story markers.
Accepted ==
  IF variant = "story" THEN StoryMarkers ELSE {ExpectedMarker(Persisted)}

\* A run that sent an instruction.
Dispatched == cycle.op = "idle" /\ cycle.send.sent /\ file.exists

\* C24 as stated: every dispatched instruction requests exactly one marker,
\* and the detector accepts it in the persisted state.
C24_Original ==
  Dispatched => Cardinality(Requested) = 1 /\ Requested \subseteq Accepted

----------------------------------------------------------------------------
\* The reference documentation section of an instruction.  Files are named by
\* their paths; a file's content stands for itself.

DocNames == {"docs/stripe.md", "docs/auth.md"}

\* reference_docs lists: none, one path, two paths in either order.
DocLists ==
  {<<>>} \cup {<<a>> : a \in DocNames}
         \cup {<<p[1], p[2]>> : p \in {q \in DocNames \X DocNames : q[1] # q[2]}}

\* A loop that puts each document in front of the ones loaded before it.
RECURSIVE loadReferenceDocsReversed(_, _)
loadReferenceDocsReversed(existing, docPaths) ==
  IF docPaths = <<>> THEN <<>>
  ELSE loadReferenceDocsReversed(existing, Tail(docPaths))
       \o (IF Head(docPaths) \in existing THEN <<Head(docPaths)>> ELSE <<>>)

\* loadReferenceDocs: the documents appended to the section, in loop order;
\* a path with no file is passed over.
RECURSIVE loadReferenceDocs(_, _)
loadReferenceDocs(existing, docPaths) ==
  IF docPaths = <<>> THEN <<>>
  ELSE (IF Head(docPaths) \in existing THEN <<Head(docPaths)>> ELSE <<>>)
       \o loadReferenceDocs(existing, Tail(docPaths))

\* A record of the phase-graph plugin in phase ph; in phase executing it has
\* one item, in progress.
DocRecord(ph, docs) ==
  [parseState(StartFile(docs, MaxIter)) EXCEPT
     !.phase = ph,
     !.totalPrompts = IF ph = "executing" THEN 1 ELSE 0,
     !.promptSequence =
        IF ph = "executing"
        THEN <<[filename |-> FileName(1), title |-> "Prompt", status |-> "in_progress"]>>
        ELSE <<>>]

InitDocs ==
  /\ variant \in {"phase", "story"}
  /\ file \in IF variant = "phase"
              THEN {writeState(DocRecord(Phases[i], docs)) :
                      i \in 1..Len(Phases), docs \in DocLists}
              ELSE {StartFileStory(docs, MaxIter) : docs \in DocLists}
  /\ lastMsg = NoMsg
  /\ prd \in IF variant = "story" THEN PrdStates ELSE {NoPrd}
  /\ cycle = [op |-> "none"]

\* The instruction built for the record, with the files that exist.
BuildWithDocs ==
  /\ \E existing \in SUBSET DocNames :
       LET p == IF variant = "story"
                THEN BuildPromptStory(parseStateStory(file), prd)
                ELSE BuildPrompt(parseState(file))
       IN cycle' = [op |-> "build", existing |-> existing,
                    declared |-> file.reference_docs,
                    builder |-> p.builder,
                    section |-> loadReferenceDocs(existing, p.docs)]
  /\ UNCHANGED <<variant, file, lastMsg, prd>>

NextDocs == BuildWithDocs

SpecDocs == InitDocs /\ [][NextDocs]_vars

\* Position of a document in the section, 0 if it is not there.
PlaceOf(doc, section) ==
  IF \E i \in 1..Len(section) : section[i] = doc
  THEN CHOOSE i \in 1..Len(section) : section[i] = doc
  ELSE 0

\* The section holds every declared document that exists, in declared order.
HoldsDeclared ==
  /\ \A i \in 1..Len(cycle.declared) :
       cycle.declared[i] \in cycle.existing => PlaceOf(cycle.declared[i], cycle.section) > 0
  /\ \A i, j \in 1..Len(cycle.declared) :
       (i < j /\ cycle.declared[i] \in cycle.existing /\ cycle.declared[j] \in cycle.existing)
         => PlaceOf(cycle.declared[i], cycle.section) < PlaceOf(cycle.declared[j], cycle.section)

\* The instruction of phase complete, or the completion instruction of the
\* story plugin.
CompletionInstruction == cycle.builder \in {"buildCompletePrompt", "COMPLETE"}

----------------------------------------------------------------------------
\* The executing phase of the phase-graph plugin, cycle by cycle.

\* The run loaded an active record of the phase-graph plugin in phase
\* executing, below the limit, and left a state file.
ExecutingCycle ==
  /\ variant = "phase" /\ BelowLimit
  /\ cycle.loaded.phase = "executing" /\ file.exists

\* Item k (counted from 1) is completed in record s.
DoneIn(s, k) == s.promptSequence[k].status = "completed"

\* C26: in the executing phase the cursor stays or moves to the next index;
\* an item becomes completed only if it was the current item of a cycle that
\* detected PROMPT_COMPLETE, and the cursor leaves an item only by completing
\* it; a completed item stays completed and is never current again; the
\* phase becomes qa_integration only in a cycle that completed the item at
\* index totalPrompts - 1; and the instruction sent names the current item.
C26_ExecutingOrder ==
  ExecutingCycle =>
    LET s == cycle.loaded
        t == parseState(file)
        i == s.currentPromptIndex
    IN /\ t.currentPromptIndex \in {i, i + 1}
       /\ t.totalPrompts = s.totalPrompts
       /\ Len(t.promptSequence) = Len(s.promptSequence)
       /\ \A k \in 1..Len(s.promptSequence) :
            /\ (DoneIn(t, k) /\ ~DoneIn(s, k)) => (k = i + 1 /\ MarkerDetected)
            /\ DoneIn(s, k) => (DoneIn(t, k) /\ k # i + 1)
            /\ t.promptSequence[k].filename = s.promptSequence[k].filename
       /\ t.currentPromptIndex = i + 1 => (DoneIn(t, i + 1) /\ ~DoneIn(s, i + 1))
       /\ t.phase \in {"executing", "qa_integration"}
       /\ t.phase = "qa_integration" =>
            /\ i = s.totalPrompts - 1 /\ t.currentPromptIndex = i
            /\ DoneIn(t, i + 1) /\ ~DoneIn(s, i + 1) /\ MarkerDetected
       /\ t.phase = "executing" =>
            cycle.send.prompt.item = t.promptSequence[t.currentPromptIndex + 1].filename

C26_Witness ==
  /\ ExecutingCycle /\ MarkerDetected
  /\ cycle.loaded.totalPrompts = 2 /\ cycle.loaded.currentPromptIndex = 1
  /\ DoneIn(cycle.loaded, 1) /\ ~DoneIn(cycle.loaded, 2)
  /\ file.phase = "qa_integration" /\ DoneIn(parseState(file), 2)

----------------------------------------------------------------------------
\* /mvp-skip of the phase-graph plugin.  The command is carried out on the
\* state file by the agent; the file has the format writeState produces, in
\* which an item's status is one of the characters " ", "x" and "/".

\* What the agent may put between the brackets of a skipped item: the
\* character writeState uses for a status that is neither completed nor
\* in_progress, or a character of its own.
SkipChars == {" ", "-"}

\* Steps 3 of the command on a loaded record: mark the current item skipped,
\* increment the index, advance to the QA phase if no item is left.
skipPrompt(s) ==
  LET i == s.currentPromptIndex
      s1 == IF Defined(s, i) THEN SetStatus(s, i, "skipped") ELSE s
      s2 == [s1 EXCEPT !.currentPromptIndex = i + 1]
  IN IF i + 1 < s.totalPrompts THEN s2 ELSE [s2 EXCEPT !.phase = "qa_integration"]

InitSkip ==
  /\ variant = "phase"
  /\ file = Absent
  /\ lastMsg = NoMsg
  /\ prd = NoPrd
  /\ cycle = Other("none")

\* /mvp-skip
SkipCommand ==
  /\ LET s == parseState(file)
     IN IF s = NullState \/ s.phase # "executing"
        THEN /\ file' = file
             /\ cycle' = [Other("skip") EXCEPT !.loaded = s]
        ELSE \E ch \in SkipChars :
               LET w == writeState(skipPrompt(s))
                   k == s.currentPromptIndex + 1
               IN /\ file' = IF k \in 1..Len(w.body)
                              THEN [w EXCEPT !.body[k].ch = ch] ELSE w
                  /\ cycle' = [Other("skip") EXCEPT !.loaded = s, !.wrote = TRUE]
  /\ UNCHANGED <<variant, lastMsg, prd>>

NextSkip ==
  \/ Start
  \/ AgentReplyExact
  \/ IdlePhase
  \/ SkipCommand

SpecSkip == InitSkip /\ [][NextSkip]_vars

\* /mvp-skip was applied to a record in phase executing.
Skipped == cycle.op = "skip" /\ cycle.wrote

\* C27: skip on a record in phase executing at index i leaves item i with
\* status skipped and the cursor at i + 1, in phase executing if
\* i + 1 < totalPrompts and in phase qa_integration otherwise; skip with no
\* state file changes nothing.
C27_Skip ==
  /\ Skipped =>
       LET s == cycle.loaded
           t == parseState(file)
           i == s.currentPromptIndex
       IN /\ Len(t.promptSequence) = Len(s.promptSequence)
          /\ t.promptSequence[i + 1].status = "skipped"
          /\ t.currentPromptIndex = i + 1
          /\ t.phase = IF i + 1 < s.totalPrompts THEN "executing" ELSE "qa_integration"
  /\ (cycle.op = "skip" /\ cycle.loaded = NullState) => file = Absent

\* The cursor and the phase after a skip, as the header records them.
SkipMovesCursor ==
  Skipped =>
    /\ file.current_prompt_index = cycle.loaded.currentPromptIndex + 1
    /\ file.phase = IF cycle.loaded.currentPromptIndex + 1 < cycle.loaded.totalPrompts
                    THEN "executing" ELSE "qa_integration"
    /\ \A k \in 1..Len(parseState(file).promptSequence) :
         parseState(file).promptSequence[k].status # "skipped"

----------------------------------------------------------------------------
\* Triggers that read a message an earlier trigger has read.  The report
\* also tells whether the message the run read had already moved the cursor
\* in an earlier run of this workflow (again), and whether it has done so by
\* now (honoured).

InitStale ==
  /\ variant = "phase"
  /\ file = Absent
  /\ lastMsg = NoMsg
  /\ prd = NoPrd
  /\ cycle = Other("none") @@ [again |-> FALSE, honoured |-> FALSE]

StartStale ==
  /\ ~file.exists
  /\ \E docs \in RefDocChoices, max \in MaxIterChoices :
       file' = StartFileOf(variant, docs, max)
  /\ cycle' = Other("start") @@ [again |-> FALSE, honoured |-> FALSE]
  /\ UNCHANGED <<variant, lastMsg, prd>>

\* The agent answers with a new message, whose text may equal the last one.
ReplyStale ==
  /\ file.exists
  /\ \E t \in ExactReplies : lastMsg' = t
  /\ cycle' = Other("reply") @@ [again |-> FALSE, honoured |-> FALSE]
  /\ UNCHANGED <<variant, file, prd>>

\* session.idle, possibly with no answer of the agent since the last one:
\* the handler fetches the last assistant message of the session each time.
IdleStale ==
  /\ LET s == parseState(file)
     IN IF s = NullState \/ ~s.active
        THEN /\ cycle' = Ignored(s) @@ [again |-> FALSE, honoured |-> cycle.honoured]
             /\ file' = file
        ELSE \E getOk \in BOOLEAN :
             \E listing \in IF Discovers(s, getOk, lastMsg) THEN Listings ELSE {<<>>} :
             \E git \in IF CallsGit(s, Detect(s, getOk, lastMsg, listing))
                        THEN GitOutcomes(s.lastCommit) ELSE {NoGit} :
               LET r == Handle(s, getOk, lastMsg, listing, git)
                   moved == r.file.exists /\ (r.file.phase # s.phase
                              \/ r.file.current_prompt_index # s.currentPromptIndex)
               IN /\ file' = r.file
                  /\ cycle' = r.cycle @@ [again |-> cycle.honoured,
                                          honoured |-> cycle.honoured \/ moved]
  /\ UNCHANGED <<variant, lastMsg, prd>>

NextStale ==
  \/ StartStale
  \/ ReplyStale
  \/ IdleStale

SpecStale == InitStale /\ [][NextStale]_vars

\* C28: a trigger that reads a message which has already moved the cursor
\* does not move the cursor again.
C28_ConsumedOnce ==
  (cycle.op = "idle" /\ cycle.again /\ cycle.loaded # NullState) => ~CursorMoved

----------------------------------------------------------------------------
\* Invariants of the record the phase-graph plugin persists.

\* C29: in every persisted record of the phase-graph plugin, as parseState
\* reloads it, totalPrompts is the length of promptSequence, and in phase
\* executing 0 <= currentPromptIndex < totalPrompts, so that the executing
\* instruction names an existing item.
C29_CursorInRange ==
  (variant = "phase" /\ file.exists) =>
    LET t == parseState(file)
    IN /\ t.totalPrompts = Len(t.promptSequence)
       /\ t.phase = "executing" =>
            /\ 0 <= t.currentPromptIndex /\ t.currentPromptIndex < t.totalPrompts
            /\ BuildPrompt(t).item = t.promptSequence[t.currentPromptIndex + 1].filename
            /\ BuildPrompt(t).marker = "PROMPT_COMPLETE"

C29_Witness ==
  /\ variant = "phase" /\ file.exists /\ cycle.op = "idle" /\ cycle.wrote
  /\ file.phase = "executing"
  /\ file.total_prompts = 2 /\ file.current_prompt_index = 1
  /\ Len(parseState(file).promptSequence) = 2

\* The phases after executing.
PastExecuting == {"qa_integration", "qa_completeness", "documentation", "complete"}

\* C30: in a persisted record in phase executing the item at
\* currentPromptIndex is in_progress and is the only one, every item before
\* it is completed and every item after it is pending; in a persisted record
\* past executing every item is completed.
C30_StatusPattern ==
  (variant = "phase" /\ file.exists) =>
    LET t == parseState(file)
        status(k) == t.promptSequence[k].status
    IN /\ t.phase = "executing" =>
            \A k \in 1..Len(t.promptSequence) :
              status(k) = IF k < t.currentPromptIndex + 1 THEN "completed"
                          ELSE IF k = t.currentPromptIndex + 1 THEN "in_progress"
                          ELSE "pending"
       /\ t.phase = "executing" =>
            Cardinality({k \in 1..Len(t.promptSequence) : status(k) = "in_progress"}) = 1
       /\ t.phase \in PastExecuting =>
            \A k \in 1..Len(t.promptSequence) : status(k) = "completed"

C30_Witness ==
  /\ variant = "phase" /\ file.exists /\ cycle.op = "idle" /\ cycle.wrote
  /\ file.phase = "executing" /\ file.current_prompt_index = 1
  /\ Len(file.body) = 2
  /\ file.body[1].ch = "x" /\ file.body[2].ch = "/"

----------------------------------------------------------------------------
\* writeState followed by parseState, on the records the phase-graph plugin
\* can hold in memory.

Statuses == {"pending", "in_progress", "completed", "skipped"}

\* Records with up to MaxFiles items of any status, a hash or null as
\* lastCommit, in any phase.
HeldRecords ==
  UNION {
    {[isNull |-> FALSE, active |-> a, phase |-> Phases[ph],
      currentPromptIndex |-> 0, totalPrompts |-> n,
      promptSequence |-> [k \in 1..n |->
         [filename |-> FileName(k), title |-> "Prompt", status |-> st[k]]],
      lastCommit |-> c, referenceDocs |-> docs,
      maxIterations |-> MaxIter, currentIteration |-> 1] :
       a \in BOOLEAN, ph \in 1..Len(Phases), st \in [1..n -> Statuses],
       c \in {JsNull} \cup Hashes, docs \in RefDocChoices} :
    n \in 0..MaxFiles}

InitRound ==
  /\ variant = "phase"
  /\ file = Absent
  /\ lastMsg = NoMsg
  /\ prd = NoPrd
  /\ cycle \in {[op |-> "hold", record |-> s] : s \in HeldRecords}

\* writeState(directory, state)
SaveRecord ==
  /\ cycle.op = "hold"
  /\ file' = writeState(cycle.record)
  /\ cycle' = [cycle EXCEPT !.op = "saved"]
  /\ UNCHANGED <<variant, lastMsg, prd>>

\* parseState(directory)
LoadRecord ==
  /\ cycle.op = "saved"
  /\ cycle' = [op |-> "loaded", record |-> cycle.record, after |-> parseState(file)]
  /\ UNCHANGED <<variant, file, lastMsg, prd>>

NextRound == SaveRecord \/ LoadRecord

SpecRound == InitRound /\ [][NextRound]_vars

\* C31: parseState after writeState(s) returns s, for every record s,
\* lastCommit = null and skipped items included.
C31_RoundTrip ==
  cycle.op = "loaded" => cycle.after = cycle.record

\* The round trip of a record with a commit hash and no skipped item.
RoundTripOfWritable ==
  (cycle.op = "loaded" /\ cycle.record.lastCommit # JsNull
     /\ \A k \in 1..Len(cycle.record.promptSequence) :
          cycle.record.promptSequence[k].status # "skipped")
    => cycle.after = cycle.record

----------------------------------------------------------------------------
\* Counting the instructions of one workflow.  The report also keeps the
\* limit the workflow was started with and the number of instructions the
\* plugin has sent since then.

InitCount ==
  /\ variant = "phase"
  /\ file = Absent
  /\ lastMsg = NoMsg
  /\ prd = NoPrd
  /\ cycle = Other("none") @@ [limit |-> 0, sends |-> 0]

\* /mvp-start with current_iteration 1 and max_iterations max.
StartCount ==
  /\ ~file.exists
  /\ \E docs \in RefDocChoices, max \in MaxIterChoices :
       /\ file' = StartFileOf(variant, docs, max)
       /\ cycle' = Other("start") @@ [limit |-> max, sends |-> 0]
  /\ UNCHANGED <<variant, lastMsg, prd>>

ReplyCount ==
  /\ file.exists
  /\ \E t \in ExactReplies \ {lastMsg} : lastMsg' = t
  /\ cycle' = Other("reply") @@ [limit |-> cycle.limit, sends |-> cycle.sends]
  /\ UNCHANGED <<variant, file, prd>>

IdleCount ==
  /\ LET s == parseState(file)
     IN IF s = NullState \/ ~s.active
        THEN /\ cycle' = Ignored(s) @@ [limit |-> cycle.limit, sends |-> cycle.sends]
             /\ file' = file
        ELSE \E getOk \in BOOLEAN :
             \E listing \in IF Discovers(s, getOk, lastMsg) THEN Listings ELSE {<<>>} :
             \E git \in IF CallsGit(s, Detect(s, getOk, lastMsg, listing))
                        THEN GitOutcomes(s.lastCommit) ELSE {NoGit} :
               LET r == Handle(s, getOk, lastMsg, listing, git)
               IN /\ file' = r.file
                  /\ cycle' = r.cycle @@
                       [limit |-> cycle.limit,
                        sends |-> cycle.sends + (IF r.cycle.send.sent THEN 1 ELSE 0)]
  /\ UNCHANGED <<variant, lastMsg, prd>>

NextCount ==
  \/ StartCount
  \/ ReplyCount
  \/ IdleCount

SpecCount == InitCount /\ [][NextCount]_vars

\* C32: a workflow started with current_iteration 1 and max_iterations N
\* receives at most N - 1 instructions from the plugin; the persisted counter
\* is 1 plus the number of instructions sent.
C32_SendBudget ==
  cycle.limit >= 1 =>
    /\ cycle.sends <= cycle.limit - 1
    /\ file.exists => file.current_iteration = 1 + cycle.sends

C32_Witness ==
  /\ cycle.op = "idle" /\ cycle.outcome = "halted"
  /\ cycle.limit = 3 /\ cycle.sends = 2 /\ ~file.exists

----------------------------------------------------------------------------
\* Termination.  /mvp-start writes the value of --max-iterations into the
\* state file as it was typed; parseState reads it with parseInt.

\* --max-iterations as typed: 1, 3, or a text that is not a number.
LimitTexts == {NumText(<<1>>, ""), NumText(<<3>>, ""), NumText(<<>>, "abc")}

\* The state file /mvp-start creates, as text.
StartText(max) ==
  [exists |-> TRUE, raw |-> TRUE, fenced |-> TRUE, active |-> <<"true">>,
   phase |-> <<"generating_plan">>, max_iterations |-> <<max>>,
   current_iteration |-> <<NumText(<<1>>, "")>>]

InitLive ==
  /\ variant = "phase"
  /\ file = Absent
  /\ lastMsg = NoMsg
  /\ prd = NoPrd
  /\ cycle = Other("none")

StartLive ==
  /\ ~file.exists
  /\ \E max \in LimitTexts : file' = StartText(max)
  /\ cycle' = Other("start")
  /\ UNCHANGED <<variant, lastMsg, prd>>

ReplyLive ==
  /\ file.exists
  /\ \E t \in ExactReplies \ {lastMsg} : lastMsg' = t
  /\ cycle' = Other("reply")
  /\ UNCHANGED <<variant, file, prd>>

\* A counter above MaxIter is kept as MaxIter.  The numeric limits of this
\* section are below MaxIter, so only a record whose limit is not a number
\* gets there, and for such a record the handler never looks at the value.
Capped(f) ==
  IF f.exists /\ f.current_iteration > MaxIter
  THEN [f EXCEPT !.current_iteration = MaxIter] ELSE f

\* event({ type: "session.idle" }) of the phase-graph plugin.
IdleLive ==
  /\ LET s == parseStateAny(file)
     IN IF s = NullState \/ ~s.active
        THEN /\ cycle' = Ignored(s)
             /\ file' = file
        ELSE \E getOk \in BOOLEAN :
             \E listing \in IF Discovers(s, getOk, lastMsg) THEN Listings ELSE {<<>>} :
             \E git \in IF CallsGit(s, Detect(s, getOk, lastMsg, listing))
                        THEN GitOutcomes(s.lastCommit) ELSE {NoGit} :
               LET r == Handle(s, getOk, lastMsg, listing, git)
               IN /\ file' = Capped(r.file)
                  /\ cycle' = r.cycle
  /\ UNCHANGED <<variant, lastMsg, prd>>

NextLive ==
  \/ StartLive
  \/ ReplyLive
  \/ IdleLive

\* session.idle keeps being delivered.
SpecLive == InitLive /\ [][NextLive]_vars /\ WF_vars(IdleLive)

\* The limit of the persisted record is a number.
NumericLimit == file.exists /\ parseStateAny(file).maxIterations # NaN

\* C33: with session.idle delivered again and again, every active workflow
\* reaches a state with no state file.
C33_Termination ==
  (file.exists /\ parseStateAny(file).active) ~> ~file.exists

\* The same for workflows whose limit is a number.
TerminatesWithNumericLimit ==
  NumericLimit ~> ~file.exists

----------------------------------------------------------------------------
\* The guards at the head of the event handler, in the three plugins.  The
\* report also keeps the type of the event and the state file before it.

EventTypes == {"session.idle", "session.updated", "message.updated"}

\* The handler looking at the state file alone.
ReturnsEarlyOnMissingOnly(type, s) ==
  type # "session.idle" \/ s = NullState

\* if (event.type !== "session.idle") return
\* if (!state || !state.active) return
ReturnsEarly(type, s) ==
  type # "session.idle" \/ s = NullState \/ ~s.active

\* parseState of the installed plugin.
parseStateOf(v, f) ==
  CASE v = "phase" -> parseState(f)
    [] v = "legacy" -> parseStateLegacy(f)
    [] v = "story" -> parseStateStory(f)

\* State files on disk: none, the one /mvp-start writes, and the same with
\* active: false.
GuardFiles(v) ==
  {Absent} \cup {[StartFileOf(v, <<>>, 3) EXCEPT !.active = a] : a \in BOOLEAN}

GuardReplies(v) ==
  {Text(<<>>),
   Text(<<Inner(IF v = "story" THEN "COMPLETE" ELSE "SEQUENCE_PLAN_COMPLETE", FALSE)>>)}

InitGuard ==
  /\ variant \in Variants
  /\ file \in GuardFiles(variant)
  /\ lastMsg \in GuardReplies(variant)
  /\ prd = NoPrd
  /\ cycle = Other("none") @@ [event |-> "", from |-> Absent]

ReplyGuard ==
  /\ \E t \in GuardReplies(variant) \ {lastMsg} : lastMsg' = t
  /\ cycle' = Other("reply") @@ [event |-> "", from |-> file]
  /\ UNCHANGED <<variant, file, prd>>

\* The file is deactivated by hand (active: false).
Deactivate ==
  /\ file.exists /\ file.active
  /\ file' = [file EXCEPT !.active = FALSE]
  /\ cycle' = Other("edit") @@ [event |-> "", from |-> file]
  /\ UNCHANGED <<variant, lastMsg, prd>>

\* event({ event }) with an event of any type.
DeliverEvent ==
  /\ \E type \in EventTypes :
       LET s == IF type = "session.idle" THEN parseStateOf(variant, file) ELSE NullState
           tag == [event |-> type, from |-> file]
       IN IF ReturnsEarly(type, s)
          THEN /\ cycle' = Ignored(s) @@ tag
               /\ file' = file
          ELSE \E getOk \in BOOLEAN :
               \E listing \in IF (variant = "phase" /\ Discovers(s, getOk, lastMsg))
                                 \/ (variant = "legacy" /\ DiscoversLegacy(s, getOk, lastMsg))
                              THEN Listings ELSE {<<>>} :
               \E git \in GitOutcomes(JsNull) \cup {NoGit} :
                 LET r == CASE variant = "phase" -> Handle(s, getOk, lastMsg, listing, git)
                            [] variant = "legacy" -> HandleLegacy(s, getOk, lastMsg, listing, git)
                            [] variant = "story" -> HandleStory(s, getOk, lastMsg, prd, git)
                 IN /\ file' = r.file
                    /\ cycle' = r.cycle @@ tag
  /\ UNCHANGED <<variant, lastMsg, prd>>

NextGuard ==
  \/ ReplyGuard
  \/ Deactivate
  \/ DeliverEvent

SpecGuard == InitGuard /\ [][NextGuard]_vars

\* An event that is not session.idle, or one that found no state file or a
\* record with active = false.
NotForUs ==
  /\ cycle.op = "idle"
  /\ \/ cycle.event # "session.idle"
     \/ cycle.loaded = NullState
     \/ ~cycle.loaded.active

\* C34: an event that is not session.idle, or finds no state file, or loads
\* a record with active = false, changes nothing: the state file is neither
\* written nor deleted, there is no commit, no log entry and no instruction.
C34_NoEffect ==
  NotForUs =>
    /\ file = cycle.from
    /\ ~cycle.wrote /\ ~cycle.deleted
    /\ cycle.commits = <<>> /\ cycle.logs = <<>>
    /\ ~cycle.send.sent

C34_Witness ==
  /\ NotForUs /\ cycle.event = "session.idle"
  /\ cycle.loaded # NullState /\ ~cycle.loaded.active
  /\ file.exists /\ variant = "story"
  /\ lastMsg = Text(<<Inner("COMPLETE", FALSE)>>)

----------------------------------------------------------------------------
\* discoverPromptFiles on file names with one, two and three digits.

\* prompt_2.md, prompt_9.md, prompt_10.md, prompt_11.md, prompt_100.md
DiscoverNames == {<<2>>, <<9>>, <<1, 0>>, <<1, 1>>, <<1, 0, 0>>}

\* readdirSync: the matching files of the directory, in any order.
Readdirs ==
  {l \in UNION {[1..n -> DiscoverNames] : n \in 0..Cardinality(DiscoverNames)} :
     \A i, j \in 1..Len(l) : i # j => l[i] # l[j]}

InitDiscover ==
  /\ variant \in {"phase", "legacy"}
  /\ file = Absent
  /\ lastMsg = NoMsg
  /\ prd = NoPrd
  /\ cycle \in {[op |-> "readdir", listing |-> l] : l \in Readdirs}

DiscoverItems ==
  /\ cycle.op = "readdir"
  /\ cycle' = [op |-> "discover", listing |-> cycle.listing,
               items |-> IF variant = "phase"
                         THEN discoverPromptFiles(cycle.listing)
                         ELSE discoverPromptFilesLegacy(cycle.listing)]
  /\ UNCHANGED <<variant, file, lastMsg, prd>>

NextDiscover == DiscoverItems

SpecDiscover == InitDiscover /\ [][NextDiscover]_vars

\* The items are the files of the listing, in ascending order of their
\* numbers, all pending.
InNumericOrder ==
  /\ Len(cycle.items) = Len(cycle.listing)
  /\ {cycle.items[i].filename : i \in 1..Len(cycle.items)}
       = {cycle.listing[i] : i \in 1..Len(cycle.listing)}
  /\ \A i, j \in 1..Len(cycle.items) :
       i < j => NumOf(cycle.items[i].filename) < NumOf(cycle.items[j].filename)
  /\ \A i \in 1..Len(cycle.items) : cycle.items[i].status = "pending"

\* C35: discovery returns the prompt files in ascending order of their
\* numbers, whatever the number of digits, every item pending.
C35_NumericOrder ==
  cycle.op = "discover" => InNumericOrder

\* The same for the phase-graph plugin alone.
NumericOrderPhaseGraph ==
  (cycle.op = "discover" /\ variant = "phase") => InNumericOrder

----------------------------------------------------------------------------
\* Properties of the legacy and the story handler

\* The legacy run read PROMPTS_GENERATED while generating_prompts was
\* current and discoverPromptFiles found no file.
ZeroItemsLegacy ==
  /\ variant = "legacy" /\ BelowLimit /\ ~cycle.threw
  /\ cycle.loaded.phase = "generating_prompts"
  /\ FirstIsExpected
  /\ cycle.listing = <<>>

\* C36: in the legacy plugin, when PROMPTS_GENERATED is detected and no
\* prompt file is found, the phase stays generating_prompts: the workflow
\* does not enter executing with an empty item list.
C36_LegacyZeroItemsStay ==
  ZeroItemsLegacy =>
    /\ file.exists /\ file.phase = "generating_prompts"
    /\ ~(file.phase = "executing" /\ file.total_prompts = 0)

\* The story run read a response with more than one marker, the first of
\* which is not COMPLETE.
SeveralMarkers ==
  /\ variant = "story" /\ BelowLimit /\ ~cycle.threw
  /\ cycle.text.has /\ Len(cycle.text.markers) > 1
  /\ cycle.text.markers[1] # Inner("COMPLETE", FALSE)

\* C37: in the story plugin only the first marker of a response is honoured:
\* a response whose first marker is not COMPLETE does not end the workflow,
\* whatever follows it.
C37_StoryFirstMarkerOnly ==
  SeveralMarkers =>
    /\ ~cycle.deleted /\ file.exists
    /\ cycle.outcome # "completed"

----------------------------------------------------------------------------
\* The instruction of the story plugin and the text of prd.json.  Here prd
\* holds the file as it is on disk: absent, a text JSON.parse rejects, or a
\* JSON object, whose userStories may be missing and whose stories may lack
\* the passes member.

PassesTexts == {"true", "false", "absent"}

RawStory(id, priority, passes) == [id |-> id, priority |-> priority, passes |-> passes]

RawPrds ==
  {[kind |-> "absent", hasStories |-> FALSE, userStories |-> <<>>],
   [kind |-> "garbage", hasStories |-> FALSE, userStories |-> <<>>],
   [kind |-> "json", hasStories |-> FALSE, userStories |-> <<>>],
   [kind |-> "json", hasStories |-> TRUE, userStories |-> <<>>]}
  \cup
  {[kind |-> "json", hasStories |-> TRUE,
    userStories |-> <<RawStory("US-001", pa, fa), RawStory("US-002", 1, fb)>>] :
     pa \in 1..MaxPriority, fa \in PassesTexts, fb \in PassesTexts}

\* The truth value JavaScript gives the passes member in !s.passes and
\* s.passes ? ... : ...; a missing member is undefined.
Truthy(passes) == passes = "true"

\* loadPRD: null unless the file exists and JSON.parse accepts it.
loadPRD(d) ==
  IF d.kind # "json" THEN NoPrd
  ELSE Prd([i \in 1..Len(d.userStories) |->
              Story(d.userStories[i].id, d.userStories[i].priority,
                    Truthy(d.userStories[i].passes))])

\* prd.userStories.filter on an object that has no userStories: a TypeError.
FilterThrows(d) == d.kind = "json" /\ ~d.hasStories

InitPrd ==
  /\ variant = "story"
  /\ file = Absent
  /\ lastMsg = NoMsg
  /\ prd \in RawPrds
  /\ cycle = Other("none") @@ [crashed |-> FALSE]

StartPrd ==
  /\ ~file.exists
  /\ \E docs \in RefDocChoices, max \in MaxIterChoices :
       file' = StartFileStory(docs, max)
  /\ cycle' = Other("start") @@ [crashed |-> FALSE]
  /\ UNCHANGED <<variant, lastMsg, prd>>

ReplyPrd ==
  /\ file.exists
  /\ \E t \in Replies("story") \ {lastMsg} : lastMsg' = t
  /\ cycle' = Other("reply") @@ [crashed |-> FALSE]
  /\ UNCHANGED <<variant, file, prd>>

\* prd.json is written, by the agent or by hand.
WritesPrd ==
  /\ \E d \in RawPrds \ {prd} : prd' = d
  /\ cycle' = Other("prd") @@ [crashed |-> FALSE]
  /\ UNCHANGED <<variant, file, lastMsg>>

\* session.idle: the handler saves the incremented counter, then computes the
\* story counts of the status line and builds the instruction; a TypeError
\* there leaves the handler before session.send.
IdlePrd ==
  /\ LET s == parseStateStory(file)
     IN IF s = NullState \/ ~s.active
        THEN /\ cycle' = Ignored(s) @@ [crashed |-> FALSE]
             /\ file' = file
        ELSE \E getOk \in BOOLEAN :
             \E git \in IF CallsGitStory(s, getOk, lastMsg)
                        THEN GitOutcomes(JsNull) ELSE {NoGit} :
               LET r == HandleStory(s, getOk, lastMsg, loadPRD(prd), git)
                   crash == r.cycle.outcome = "continued" /\ FilterThrows(prd)
               IN /\ file' = r.file
                  /\ cycle' = (IF crash
                               THEN [r.cycle EXCEPT
                                       !.send = NoSend,
                                       !.logs = SubSeq(@, 1, Len(@) - 1)]
                               ELSE r.cycle) @@ [crashed |-> crash]
  /\ UNCHANGED <<variant, lastMsg, prd>>

NextPrd ==
  \/ StartPrd
  \/ ReplyPrd
  \/ WritesPrd
  \/ IdlePrd

SpecPrd == InitPrd /\ [][NextPrd]_vars

\* The handler went on to the instruction: neither the limit nor COMPLETE
\* ended the run.
ReachedInstruction == cycle.op = "idle" /\ cycle.outcome = "continued"

NoStoryPassesFalse ==
  \A i \in 1..Len(prd.userStories) : prd.userStories[i].passes # "false"

InstructionIs(kind) == cycle.send.sent /\ cycle.send.prompt.builder = kind

\* C38: the kind of the story plugin's instruction is determined by prd.json
\* alone: the create-PRD instruction exactly when prd.json is absent or
\* unparseable, the completion instruction exactly when it is parseable and
\* no story has passes=false, and otherwise an instruction naming the one
\* story getNextStory selects.
C38_InstructionKind ==
  ReachedInstruction =>
    /\ InstructionIs("Create PRD") <=> prd.kind # "json"
    /\ InstructionIs("COMPLETE") <=> (prd.kind = "json" /\ NoStoryPassesFalse)
    /\ ~(prd.kind = "json" /\ NoStoryPassesFalse) /\ prd.kind = "json" =>
         /\ InstructionIs("Iteration")
         /\ getNextStory(loadPRD(prd)) # <<>>
         /\ cycle.send.prompt.story = getNextStory(loadPRD(prd))[1].id

\* prd.json in the shape of PRDData: a userStories array whose stories all
\* carry a boolean passes.
WellFormedPrd ==
  prd.kind = "json" =>
    /\ prd.hasStories
    /\ \A i \in 1..Len(prd.userStories) : prd.userStories[i].passes # "absent"

\* For a prd.json in the shape of PRDData the instruction is of the kind, and
\* names the story, that prd.json determines.
InstructionKindOfWellFormedPrd ==
  ReachedInstruction /\ WellFormedPrd =>
    /\ ~cycle.crashed
    /\ InstructionIs("Create PRD") <=> prd.kind # "json"
    /\ InstructionIs("COMPLETE") <=> (prd.kind = "json" /\ NoStoryPassesFalse)
    /\ ~(prd.kind = "json" /\ NoStoryPassesFalse) /\ prd.kind = "json" =>
         /\ InstructionIs("Iteration")
         /\ cycle.send.prompt.story = getNextStory(loadPRD(prd))[1].id

\* A well-formed prd.json whose second story outranks the first: the
\* instruction names the second.
PriorityDecides ==
  /\ ReachedInstruction /\ WellFormedPrd /\ prd.kind = "json"
  /\ Len(prd.userStories) = 2
  /\ prd.userStories[1].passes = "false" /\ prd.userStories[2].passes = "false"
  /\ prd.userStories[1].priority > prd.userStories[2].priority
  /\ InstructionIs("Iteration") /\ cycle.send.prompt.story = "US-002"

====
